---- MODULE Spec2Model ----
(***************************************************************************)
(* Procedural world generator of web-playground: the seeded noise engine   *)
(* (client/world/noise.ts), the island placer (client/world/islands.ts)    *)
(* and the world generator (client/world/generator.ts).                    *)
(*                                                                         *)
(* Numbers.  A JavaScript int32/uint32 is a pair <<hi, lo>> of 16-bit      *)
(* halves (the value hi * 2^16 + lo, taken modulo 2^32).  A JavaScript     *)
(* double that carries a world quantity (coordinate, radius, height) is a  *)
(* fixed-point integer counting 1/FP world units; a ratio or a noise value *)
(* counts 1/Q.  Divisions round down.                                      *)
(*                                                                         *)
(* Intermediate values are passed as operator arguments rather than named  *)
(* in LET, so that each is evaluated once.                                 *)
(***************************************************************************)
EXTENDS Integers, Sequences, FiniteSets, TLC

Abs(n) == IF n < 0 THEN -n ELSE n
Max(a, b) == IF a >= b THEN a ELSE b
Min(a, b) == IF a <= b THEN a ELSE b

\* ------------------------------------------------------------------------
\* 32-bit words
\* ------------------------------------------------------------------------
H16 == 2^16

RECURSIVE XorBits(_, _, _)
XorBits(a, b, n) ==
  IF n = 0 THEN 0
  ELSE ((a + b) % 2) + 2 * XorBits(a \div 2, b \div 2, n - 1)

\* x ^ y on 4-bit digits, tabulated
XorNib == [a \in 0..15 |-> [b \in 0..15 |-> XorBits(a, b, 4)]]

Xor16(a, b) ==
  XorNib[a % 16][b % 16]
  + 16 * XorNib[(a \div 16) % 16][(b \div 16) % 16]
  + 256 * XorNib[(a \div 256) % 16][(b \div 256) % 16]
  + 4096 * XorNib[a \div 4096][b \div 4096]

\* x ^ y
Xor32(x, y) == <<Xor16(x[1], y[1]), Xor16(x[2], y[2])>>

\* x + y | 0
Add32(x, y) ==
  <<(x[1] + y[1] + (x[2] + y[2]) \div H16) % H16, (x[2] + y[2]) % H16>>

RECURSIVE Pow2(_)
Pow2(n) == IF n = 0 THEN 1 ELSE 2 * Pow2(n - 1)

\* x >>> n, for 0 < n < 16
Shr32(x, n) ==
  <<x[1] \div Pow2(n), (x[1] % Pow2(n)) * Pow2(16 - n) + x[2] \div Pow2(n)>>

\* low 16 bits, and the bits above them, of the product of two 16-bit numbers
MulLo16(a, b) == ((a * (b % 256)) + ((a * (b \div 256)) % 256) * 256) % H16
MulHi16(a, b) ==
  ((a * (b % 256)) + ((a * (b \div 256)) % 256) * 256) \div H16
  + (a * (b \div 256)) \div 256

\* Math.imul(x, y)
Imul(x, y) ==
  <<(MulHi16(x[2], y[2]) + MulLo16(x[1], y[2]) + MulLo16(x[2], y[1])) % H16,
    MulLo16(x[2], y[2])>>

\* c | x for a constant c < 64 (only the low 6 bits of x change)
RECURSIVE OrBits(_, _, _)
OrBits(a, b, n) ==
  IF n = 0 THEN 0
  ELSE (IF a % 2 = 1 \/ b % 2 = 1 THEN 1 ELSE 0)
       + 2 * OrBits(a \div 2, b \div 2, n - 1)

OrLow(c, x) == <<x[1], (x[2] \div 64) * 64 + OrBits(c, x[2] % 64, 6)>>

\* ------------------------------------------------------------------------
\* mulberry32 (noise.ts 1-10): the closure's variable a, and one call
\* ------------------------------------------------------------------------
\* 0x6D2B79F5
Golden == <<27947, 31221>>

\* a = a + 0x6D2B79F5 | 0
MulberryStep(a) == Add32(a, Golden)

\* let t = Math.imul(a ^ a >>> 15, 1 | a)
MulberryMix1(a1) == Imul(Xor32(a1, Shr32(a1, 15)), OrLow(1, a1))

\* t = t + Math.imul(t ^ t >>> 7, 61 | t) ^ t
MulberryMix2(t) == Xor32(Add32(t, Imul(Xor32(t, Shr32(t, 7)), OrLow(61, t))), t)

\* (t ^ t >>> 14) >>> 0
MulberryMix3(t) == Xor32(t, Shr32(t, 14))

\* the 32-bit numerator u of the value the call returns, u / 4294967296
MulberryOut(a1) == MulberryMix3(MulberryMix2(MulberryMix1(a1)))

\* Math.floor(r * n) for the draw r = u / 2^32 and an integer 0 < n < 2^15
ScaleFloor(u, n) == (u[1] * n + (u[2] * n) \div H16) \div H16

\* ------------------------------------------------------------------------
\* Seeds (number | string).  kind "num": the number num; kind "nan": NaN;
\* kind "str": the string whose char codes are str.
\* ------------------------------------------------------------------------
NumSeed(n) == [kind |-> "num", num |-> n, str |-> <<>>]
NaNSeed    == [kind |-> "nan", num |-> 0, str |-> <<>>]
StrSeed(s) == [kind |-> "str", num |-> 0, str |-> s]

\* the for loop of hashString; hash & hash truncates to int32, which is the
\* identity for the short strings of the model
RECURSIVE HashFrom(_, _, _)
HashFrom(str, i, hash) ==
  IF i > Len(str) THEN hash
  ELSE HashFrom(str, i + 1, ((hash * 32) - hash) + str[i])

\* hashString(str)
hashString(str) == Abs(HashFrom(str, 1, 0))

\* seed >>> 0 (NaN >>> 0 is 0)
ToUint32(seed) ==
  IF seed.kind = "nan" THEN <<0, 0>>
  ELSE <<(seed.num \div H16) % H16, seed.num % H16>>

\* JavaScript truthiness of a numeric seed
Truthy(seed) == seed.kind = "num" /\ seed.num # 0

\* ------------------------------------------------------------------------
\* SeededNoise (noise.ts 22-133): [seed, a, perm]; a is the variable of the
\* mulberry32 closure held in this.rng, perm has 512 entries (1-based here)
\* ------------------------------------------------------------------------
\* for (let i = 0; i < 256; i++) p[i] = i
Identity256 == [k \in 1..256 |-> k - 1]

\* a faulty swap that only copies p[j] to p[i]
ShuffleCopy(p, i, j, a1) == [p |-> [p EXCEPT ![i + 1] = p[j + 1]], a |-> a1]

\* [p[i], p[j]] = [p[j], p[i]], with the closure variable after the draw
ShuffleSwap(p, i, j, a1) ==
  [p |-> [p EXCEPT ![i + 1] = p[j + 1], ![j + 1] = p[i + 1]], a |-> a1]

\* j = Math.floor(this.rng() * (i + 1))
ShuffleDraw(st, i, a1) == ShuffleSwap(st.p, i, ScaleFloor(MulberryOut(a1), i + 1), a1)

\* one iteration i of the Fisher-Yates loop on st = [p, a]
ShuffleStep(st, i) == ShuffleDraw(st, i, MulberryStep(st.a))

\* the iterations i = hi, hi - 1, ..., lo of the loop
RECURSIVE ShuffleRange(_, _, _)
ShuffleThen(first, hi, lo) ==
  IF first.a[1] >= 0 THEN ShuffleRange(first, hi, lo) ELSE first

ShuffleRange(st, hi, lo) ==
  IF hi = lo THEN ShuffleStep(st, hi)
  ELSE ShuffleThen(ShuffleRange(st, hi, ((hi + lo) \div 2) + 1),
                   (hi + lo) \div 2, lo)

\* return [...p, ...p]
Doubled(r) == [perm |-> r.p \o r.p, a |-> r.a]

\* _buildPermutation: the table and the closure variable after the draws
BuildPermutation(a) == Doubled(ShuffleRange([p |-> Identity256, a |-> a], 255, 1))

SeededFrom(seed, b) == [seed |-> seed, a |-> b.a, perm |-> b.perm]

\* this.rng = mulberry32(this.seed); this.perm = this._buildPermutation()
Seeded(seed) == SeededFrom(seed, BuildPermutation(ToUint32(seed)))

\* the values this.seed takes in the model, and Seeded tabulated on them
TableSeeds ==
  {NumSeed(12345), NumSeed(0), NaNSeed, NumSeed(hashString(<<97, 98>>))}

SeededTable == [seed \in TableSeeds |-> Seeded(seed)]

SeededAt(seed) == IF seed \in TableSeeds THEN SeededTable[seed] ELSE Seeded(seed)

\* new SeededNoise(seed)
NewSeededNoise(seed) ==
  SeededAt(IF seed.kind = "str" THEN NumSeed(hashString(seed.str))
           ELSE IF Truthy(seed) THEN seed ELSE NumSeed(12345))

\* a faulty reset() that rebuilds the table from the running stream
NoiseResetKeep(noise) == SeededFrom(noise.seed, BuildPermutation(noise.a))

\* reset()
NoiseReset(noise) == SeededAt(noise.seed)

\* reseed(seed)
NoiseReseed(noise, seed) ==
  NoiseReset([noise EXCEPT !.seed =
                IF seed.kind = "str" THEN NumSeed(hashString(seed.str))
                ELSE seed])

NoiseDrawn(noise, a1) == [noise |-> [noise EXCEPT !.a = a1], u |-> MulberryOut(a1)]

\* random(): [noise after the call, u] where the value returned is u / 2^32
NoiseRandom(noise) == NoiseDrawn(noise, MulberryStep(noise.a))

RangeOf(d, min, max) == [noise |-> d.noise, v |-> min + ScaleFloor(d.u, max - min)]

\* randomRange(min, max), rounded down to the fixed-point grid
NoiseRandomRange(noise, min, max) == RangeOf(NoiseRandom(noise), min, max)

\* consecutive randomRange calls, one for each <<min, max>> of ranges:
\* [noise after the calls, vs] with vs the values in order
RangesDrawn(vs, d) == [noise |-> d.noise, vs |-> Append(vs, d.v)]

RECURSIVE RangesFrom(_, _, _)
\* the calls from index i on, once the call before them has returned
RangesThen(first, ranges, i) ==
  IF Len(first.vs) >= 0 THEN RangesFrom(first, ranges, i) ELSE first

RangesFrom(st, ranges, i) ==
  IF i > Len(ranges) THEN st
  ELSE RangesThen(RangesDrawn(st.vs, NoiseRandomRange(st.noise, ranges[i][1], ranges[i][2])),
                  ranges, i + 1)

RandomRanges(noise, ranges) == RangesFrom([noise |-> noise, vs |-> <<>>], ranges, 1)

\* ------------------------------------------------------------------------
\* Fixed-point arithmetic
\* ------------------------------------------------------------------------
\* world quantities (coordinates, radii, heights, multipliers) count 1/FP
FP == 100
\* ratios in [0, 1] and noise values count 1/Q
Q == FP * FP

ISqrtMid(n, lo, hi, mid) ==
  IF mid * mid <= n THEN <<mid, hi>> ELSE <<lo, mid - 1>>

\* the largest m in lo..hi with m * m <= n
RECURSIVE ISqrtIn(_, _)
ISqrtIn(n, range) ==
  IF range[1] = range[2] THEN range[1]
  ELSE ISqrtIn(n, ISqrtMid(n, range[1], range[2], (range[1] + range[2] + 1) \div 2))

\* Math.floor(Math.sqrt(n))
ISqrt(n) == ISqrtIn(n, <<0, 46340>>)

\* Math.floor(a * b / c) for c > 0, without the product a * b
MulDiv(a, b, c) == (a \div c) * b + ((a % c) * b) \div c

\* Math.sqrt(dx * dx + dz * dz); beyond 2^15 the squares leave 32 bits and the
\* distance is taken on a grid 64 times coarser
Hypot(dx, dz) ==
  IF Abs(dx) < 32768 /\ Abs(dz) < 32768 THEN ISqrt(dx * dx + dz * dz)
  ELSE 64 * ISqrt((dx \div 64) * (dx \div 64) + (dz \div 64) * (dz \div 64))

\* 10000 * Math.cos(2 * PI * k / 64) for the first quarter turn
QuarterCos ==
  <<10000, 9952, 9808, 9569, 9239, 8819, 8315, 7730, 7071,
    6344, 5556, 4714, 3827, 2903, 1951, 980, 0>>

\* the number of directions the angle random() * 2 * PI is rounded down to
NDir == 4 * (Len(QuarterCos) - 1)

CosTurn(m, n) ==
  IF m <= n THEN QuarterCos[m + 1]
  ELSE IF m <= 2 * n THEN -QuarterCos[2 * n - m + 1]
  ELSE IF m <= 3 * n THEN -QuarterCos[m - 2 * n + 1]
  ELSE QuarterCos[4 * n - m + 1]

\* 10000 * Math.cos(angle) and 10000 * Math.sin(angle), angle = 2 * PI * k / NDir
CosDir(k) == CosTurn(k % NDir, NDir \div 4)
SinDir(k) == CosDir(k + 3 * (NDir \div 4))

\* fade(t) = t * t * t * (t * (t * 6 - 15) + 10)
fade(t) ==
  (((((t * t) \div Q) * t) \div Q) * ((t * (t * 6 - 15 * Q)) \div Q + 10 * Q)) \div Q

\* lerp(a, b, t)
lerp(a, b, t) == a + (t * (b - a)) \div Q

GradOf(h, u, v) ==
  (IF h % 2 = 1 THEN -u ELSE u) + (IF (h \div 2) % 2 = 1 THEN -2 * v ELSE 2 * v)

\* grad(hash, x, y)
grad(hash, gx, gy) ==
  GradOf(hash % 8, IF hash % 8 < 4 THEN gx ELSE gy, IF hash % 8 < 4 THEN gy ELSE gx)

NoiseLerp(perm, A, B, xf, yf, u, v) ==
  lerp(lerp(grad(perm[A + 1], xf, yf), grad(perm[B + 1], xf - Q, yf), u),
       lerp(grad(perm[A + 2], xf, yf - Q), grad(perm[B + 2], xf - Q, yf - Q), u),
       v)

NoiseCell(perm, X, Y, xf, yf) ==
  NoiseLerp(perm, perm[X + 1] + Y, perm[X + 2] + Y, xf, yf, fade(xf), fade(yf))

\* a faulty cell coordinate masked with 511
CellOfWide(n) == (n \div Q) % 512

\* Math.floor(x) & 255
CellOf(n) == (n \div Q) % 256

\* noise2D(x, y); perm[i] of the source is perm[i + 1] here
noise2D(perm, nx, ny) ==
  NoiseCell(perm, CellOf(nx), CellOf(ny),
            nx - (nx \div Q) * Q, ny - (ny \div Q) * Q)

\* one pass of the for loop of fbm; acc = [value, amplitude, frequency, maxValue]
FbmStep(perm, nx, ny, lacunarity, persistence, acc) ==
  [value     |-> acc.value
                 + (noise2D(perm, (nx * acc.frequency) \div FP, (ny * acc.frequency) \div FP)
                    * acc.amplitude) \div Q,
   maxValue  |-> acc.maxValue + acc.amplitude,
   amplitude |-> (acc.amplitude * persistence) \div FP,
   frequency |-> (acc.frequency * lacunarity) \div FP]

\* the for loop of fbm from octave i on
RECURSIVE FbmFrom(_, _, _, _, _, _, _, _)
\* the octaves from i on, once the octave before them is added
FbmThen(perm, nx, ny, octaves, lacunarity, persistence, i, first) ==
  IF first.maxValue >= 0
  THEN FbmFrom(perm, nx, ny, octaves, lacunarity, persistence, i, first)
  ELSE first

FbmFrom(perm, nx, ny, octaves, lacunarity, persistence, i, acc) ==
  IF i >= octaves THEN acc
  ELSE FbmThen(perm, nx, ny, octaves, lacunarity, persistence, i + 1,
               FbmStep(perm, nx, ny, lacunarity, persistence, acc))

\* return value / maxValue
FbmNorm(acc) == (acc.value * Q) \div acc.maxValue

\* fbm(x, y, octaves, lacunarity, persistence)
fbm(perm, nx, ny, octaves, lacunarity, persistence) ==
  FbmNorm(FbmFrom(perm, nx, ny, octaves, lacunarity, persistence, 0,
                  [value |-> 0, amplitude |-> Q, frequency |-> FP, maxValue |-> 0]))

\* ------------------------------------------------------------------------
\* IslandPlacer (islands.ts 46-198)
\* ------------------------------------------------------------------------
\* attempts = 30, the default of poissonDisk's second parameter
Attempts == 30

\* halfSize = worldSize / 2
HalfSize(config) == config.worldSize \div 2

\* gridW = Math.ceil(worldSize / cellSize) with cellSize = radius / sqrt(2):
\* worldSize * sqrt(2) / radius is irrational, so its ceiling is floor + 1
GridW(config, radius) ==
  ISqrt(2 * config.worldSize * config.worldSize) \div radius + 1

\* Math.floor(w / cellSize) = floor(sqrt(2 * w * w) / radius) for w >= 0, and
\* its mirror image below 0
GridCell(radius, w) ==
  IF w >= 0 THEN ISqrt(2 * w * w) \div radius
  ELSE -((ISqrt(2 * w * w) \div radius) + 1)

\* Math.floor((v + halfSize) / cellSize)
GridCoord(config, radius, v) == GridCell(radius, v + HalfSize(config))

GridFlat(gx, gz, gridW) ==
  IF gx < 0 \/ gx >= gridW \/ gz < 0 \/ gz >= gridW THEN -1
  ELSE gz * gridW + gx

\* gridIndex(x, z)
GridIndex(config, radius, px, pz) ==
  GridFlat(GridCoord(config, radius, px), GridCoord(config, radius, pz),
           GridW(config, radius))

\* the test on one neighbouring cell: the flat index is in the grid, the cell
\* holds a point, and the point is nearer than radius
NeighborClose(st, radius, nx, nz, neighborGi) ==
  /\ ~(neighborGi < 0 \/ neighborGi >= Len(st.grid))
  /\ st.grid[neighborGi + 1] >= 0
  /\ (nx - st.points[st.grid[neighborGi + 1] + 1].x)
       * (nx - st.points[st.grid[neighborGi + 1] + 1].x)
     + (nz - st.points[st.grid[neighborGi + 1] + 1].z)
       * (nz - st.points[st.grid[neighborGi + 1] + 1].z)
     < radius * radius

\* the 5 x 5 scan of grid cells around the cell (gx, gz) of the candidate
TooCloseAt(st, radius, nx, nz, gx, gz, gridW) ==
  \E dz \in -2..2 : \E dx \in -2..2 :
    NeighborClose(st, radius, nx, nz, (gz + dz) * gridW + (gx + dx))

\* a faulty scan that looks at the candidate's own grid cell only
TooCloseOwnCell(config, radius, st, nx, nz) ==
  NeighborClose(st, radius, nx, nz, GridIndex(config, radius, nx, nz))

TooClose(config, radius, st, nx, nz) ==
  TooCloseAt(st, radius, nx, nz, GridCoord(config, radius, nx),
             GridCoord(config, radius, nz), GridW(config, radius))

\* a faulty attempt that accepts candidates up to the very edge of the world
AttemptPlaceToEdge(config, radius, st, noise1, nx, nz, ngi) ==
  IF ngi < 0 THEN [st EXCEPT !.noise = noise1]
  ELSE IF TooClose(config, radius, st, nx, nz) THEN [st EXCEPT !.noise = noise1]
  ELSE [noise  |-> noise1,
        points |-> Append(st.points, [x |-> nx, z |-> nz]),
        grid   |-> [st.grid EXCEPT ![ngi + 1] = Len(st.points)],
        active |-> Append(st.active, Len(st.points)),
        found  |-> TRUE]

\* the candidate (nx, nz) of one attempt: rejected (only the draws remain) or
\* accepted; st = [noise, points, grid, active, found]
AttemptPlace(config, radius, st, noise1, nx, nz, ngi) ==
  IF Abs(nx) > (HalfSize(config) * 95) \div 100 \/ Abs(nz) > (HalfSize(config) * 95) \div 100
    THEN [st EXCEPT !.noise = noise1]
  ELSE IF ngi < 0 THEN [st EXCEPT !.noise = noise1]
  ELSE IF TooClose(config, radius, st, nx, nz) THEN [st EXCEPT !.noise = noise1]
  ELSE [noise  |-> noise1,
        points |-> Append(st.points, [x |-> nx, z |-> nz]),
        grid   |-> [st.grid EXCEPT ![ngi + 1] = Len(st.points)],
        active |-> Append(st.active, Len(st.points)),
        found  |-> TRUE]

AttemptAt(config, radius, st, noise1, nx, nz) ==
  AttemptPlace(config, radius, st, noise1, nx, nz, GridIndex(config, radius, nx, nz))

\* nx = point.x + Math.cos(angle) * dist, nz = point.z + Math.sin(angle) * dist
AttemptDist(config, radius, st, point, k, d2) ==
  AttemptAt(config, radius, st, d2.noise,
            point.x + (CosDir(k) * d2.v) \div 10000,
            point.z + (SinDir(k) * d2.v) \div 10000)

\* angle = random() * PI * 2; dist = randomRange(radius, radius * 2)
AttemptAngle(config, radius, st, point, d1) ==
  AttemptDist(config, radius, st, point, ScaleFloor(d1.u, NDir),
              NoiseRandomRange(d1.noise, radius, radius * 2))

\* one pass of the body of the for loop over the attempts, around points[pointIdx]
Attempt(config, radius, st, pointIdx) ==
  AttemptAngle(config, radius, st, st.points[pointIdx + 1], NoiseRandom(st.noise))

\* the passes i = lo .. hi of the for loop, left by break once found
RECURSIVE AttemptRange(_, _, _, _, _, _)
AttemptThen(config, radius, first, pointIdx, lo, hi) ==
  IF first.found THEN first
  ELSE AttemptRange(config, radius, first, pointIdx, lo, hi)

AttemptRange(config, radius, st, pointIdx, lo, hi) ==
  IF lo = hi THEN Attempt(config, radius, st, pointIdx)
  ELSE AttemptThen(config, radius,
                   AttemptRange(config, radius, st, pointIdx, lo, (lo + hi) \div 2),
                   pointIdx, (lo + hi) \div 2 + 1, hi)

\* active.splice(randIdx, 1)
Splice(active, randIdx) ==
  SubSeq(active, 1, randIdx) \o SubSeq(active, randIdx + 2, Len(active))

\* a faulty end of the iteration that removes the index even after a point
\* was accepted
PoissonTriedAlways(tried, randIdx) ==
  [tried EXCEPT !.active = Splice(tried.active, randIdx)]

\* if (!found) active.splice(randIdx, 1)
PoissonTried(tried, randIdx) ==
  IF tried.found THEN tried
  ELSE [tried EXCEPT !.active = Splice(tried.active, randIdx)]

\* a faulty iteration that gives up after one attempt less
PoissonPickShort(config, radius, st, noise1, randIdx) ==
  PoissonTried(AttemptRange(config, radius,
                            [st EXCEPT !.noise = noise1, !.found = FALSE],
                            st.active[randIdx + 1], 0, Attempts - 2),
               randIdx)

\* pointIdx = active[randIdx], then the attempts around it
PoissonPick(config, radius, st, noise1, randIdx) ==
  PoissonTried(AttemptRange(config, radius,
                            [st EXCEPT !.noise = noise1, !.found = FALSE],
                            st.active[randIdx + 1], 0, Attempts - 1),
               randIdx)

\* randIdx = Math.floor(random() * active.length)
PoissonDraw(config, radius, st, d) ==
  PoissonPick(config, radius, st, d.noise, ScaleFloor(d.u, Len(st.active)))

\* one iteration of while (active.length > 0)
PoissonStep(config, radius, st) == PoissonDraw(config, radius, st, NoiseRandom(st.noise))

\* at most n iterations of the while loop
RECURSIVE PoissonLoop(_, _, _, _)
PoissonThen(config, radius, first, n) ==
  IF first.active = <<>> THEN first ELSE PoissonLoop(config, radius, first, n)

PoissonLoop(config, radius, st, n) ==
  IF st.active = <<>> \/ n = 0 THEN st
  ELSE IF n = 1 THEN PoissonStep(config, radius, st)
  ELSE PoissonThen(config, radius,
                   PoissonLoop(config, radius, st, n \div 2), n - n \div 2)

\* grid = new Array(gridW * gridW).fill(-1); if (gi >= 0) grid[gi] = 0
FirstGrid(gridW, gi) == [c \in 1..(gridW * gridW) |-> IF c = gi + 1 THEN 0 ELSE -1]

\* the state before the while loop: the first point, in the grid and active
PoissonFirst(config, radius, gridW, first) ==
  [noise  |-> first.noise,
   points |-> <<[x |-> first.vs[1], z |-> first.vs[2]]>>,
   grid   |-> FirstGrid(gridW, GridIndex(config, radius, first.vs[1], first.vs[2])),
   active |-> <<0>>,
   found  |-> FALSE]

PoissonRun(config, radius, gridW, first) ==
  PoissonLoop(config, radius, PoissonFirst(config, radius, gridW, first), 2 * gridW * gridW)

\* poissonDisk(radius): [noise, points, grid, active, found] when the loop ends.
\* Every iteration adds a point or removes an active index and every grid
\* cell takes at most one point, so 2 * gridW * gridW iterations suffice.
poissonDisk(config, noise, radius) ==
  PoissonRun(config, radius, GridW(config, radius),
             RandomRanges(noise, << <<-((HalfSize(config) * 8) \div 10), (HalfSize(config) * 8) \div 10>>,
                                    <<-((HalfSize(config) * 8) \div 10), (HalfSize(config) * 8) \div 10>> >>))

\* determineIslandType(): r < 0.5, r < 0.8 on the draw r = u / 2^32
TypeOf(r10) == IF r10 < 5 THEN "tropical" ELSE IF r10 < 8 THEN "rocky" ELSE "sandy"

TypeDrawn(d) == [noise |-> d.noise, type |-> TypeOf(ScaleFloor(d.u, 10))]

determineIslandType(noise) == TypeDrawn(NoiseRandom(noise))

\* edgeFalloff = Math.max(0, 1 - distFromCenter / (halfSize * 0.85))
EdgeFalloff(config, point) ==
  Max(0, Q - (ISqrt(point.x * point.x + point.z * point.z) * Q)
               \div ((HalfSize(config) * 85) \div 100))

\* a faulty push that swaps the size and the height multiplier
PlacePushedSwapped(config, point, vs, type) ==
  [noise  |-> type.noise,
   island |-> [x |-> point.x, z |-> point.z, radius |-> vs[2],
               heightMultiplier |-> vs[1],
               noiseOffsetX |-> vs[3], noiseOffsetZ |-> vs[4],
               edgeFalloff |-> EdgeFalloff(config, point), type |-> type.type]]

\* this.islands.push({...}) of the loop, with the type drawn last
PlacePushed(config, point, vs, type) ==
  [noise  |-> type.noise,
   island |-> [x |-> point.x, z |-> point.z, radius |-> vs[1],
               heightMultiplier |-> vs[2],
               noiseOffsetX |-> vs[3], noiseOffsetZ |-> vs[4],
               edgeFalloff |-> EdgeFalloff(config, point), type |-> type.type]]

PlaceDrawn(config, point, drawn) ==
  PlacePushed(config, point, drawn.vs, determineIslandType(drawn.noise))

\* a faulty loop body that draws the height multiplier before the size
DrawnSwapped(d) == [d EXCEPT !.vs = <<d.vs[2], d.vs[1], d.vs[3], d.vs[4]>>]

PlaceOneSwapped(config, noise, point) ==
  PlaceDrawn(config, point,
             DrawnSwapped(
               RandomRanges(noise, << <<(7 * FP) \div 10, (14 * FP) \div 10>>,
                                      <<config.minIslandSize, config.maxIslandSize>>,
                                      <<-100 * FP, 100 * FP>>,
                                      <<-100 * FP, 100 * FP>> >>)))

\* the body of the for loop of placeIslands for the candidate point: size,
\* heightMultiplier, noiseOffsetX, noiseOffsetZ, then the type
PlaceOne(config, noise, point) ==
  PlaceDrawn(config, point,
             RandomRanges(noise, << <<config.minIslandSize, config.maxIslandSize>>,
                                    <<(7 * FP) \div 10, (14 * FP) \div 10>>,
                                    <<-100 * FP, 100 * FP>>,
                                    <<-100 * FP, 100 * FP>> >>))

PlaceAppend(islands, one) == [noise |-> one.noise, islands |-> Append(islands, one.island)]

\* the for loop of placeIslands from index i on; st = [noise, islands]
RECURSIVE PlaceFrom(_, _, _, _, _)
\* the passes from index i on, once the pass before them has pushed its island
PlaceThen(config, candidates, targetCount, i, first) ==
  IF Len(first.islands) >= 0 THEN PlaceFrom(config, candidates, targetCount, i, first)
  ELSE first

PlaceFrom(config, candidates, targetCount, i, st) ==
  IF i >= targetCount THEN st
  ELSE PlaceThen(config, candidates, targetCount, i + 1,
                 PlaceAppend(st.islands, PlaceOne(config, st.noise, candidates[i + 1])))

\* a faulty loop that starts at index 1 and so skips the first candidate
PlaceCandidatesFromOne(config, candidates) ==
  PlaceFrom(config, candidates.points,
            Min(config.islandCount, Len(candidates.points)), 1,
            [noise |-> candidates.noise, islands |-> <<>>])

\* targetCount = Math.min(islandCount, candidates.length), then the loop
PlaceCandidates(config, candidates) ==
  PlaceFrom(config, candidates.points,
            Min(config.islandCount, Len(candidates.points)), 0,
            [noise |-> candidates.noise, islands |-> <<>>])

\* spacing = (minIslandSize + maxIslandSize) / 2 * 2.5
Spacing(config) == ((config.minIslandSize + config.maxIslandSize) * 5) \div 4

\* the single island of islandCount === 1, from its three draws
PlaceSingle(drawn) ==
  [noise   |-> drawn.noise,
   islands |-> <<[x |-> 0, z |-> 0, radius |-> drawn.vs[1],
                  heightMultiplier |-> (15 * FP) \div 10,
                  noiseOffsetX |-> drawn.vs[2], noiseOffsetZ |-> drawn.vs[3],
                  edgeFalloff |-> Q, type |-> "rocky"]>>]

\* a faulty placeIslands() without the branch for islandCount === 1
placeIslandsByPoisson(config, noise) ==
  IF config.islandCount <= 0 THEN [noise |-> noise, islands |-> <<>>]
  ELSE PlaceCandidates(config, poissonDisk(config, noise, Spacing(config)))

\* placeIslands(): [noise after the draws, islands]
placeIslands(config, noise) ==
  IF config.islandCount <= 0 THEN [noise |-> noise, islands |-> <<>>]
  ELSE IF config.islandCount = 1 THEN
    PlaceSingle(RandomRanges(noise, << <<config.minIslandSize, config.maxIslandSize>>,
                                       <<-100 * FP, 100 * FP>>,
                                       <<-100 * FP, 100 * FP>> >>))
  ELSE PlaceCandidates(config, poissonDisk(config, noise, Spacing(config)))

\* ------------------------------------------------------------------------
\* WorldGenerator (generator.ts 27-288): [config, noise, islands]
\* ------------------------------------------------------------------------
\* DEFAULT_CONFIG (generator.ts 8-25)
DEFAULT_CONFIG ==
  [seed |-> NumSeed(12345), worldSize |-> 400 * FP, resolution |-> 120,
   islandCount |-> 8, minIslandSize |-> 25 * FP, maxIslandSize |-> 70 * FP,
   noiseFrequency |-> (25 * FP) \div 10, noiseOctaves |-> 5,
   noiseLacunarity |-> (22 * FP) \div 10, noisePersistence |-> (45 * FP) \div 100,
   waterHeight |-> -1 * FP, waveHeight |-> (12 * FP) \div 10,
   waveSpeed |-> (7 * FP) \div 10, maxTerrainHeight |-> 35 * FP,
   oceanDepth |-> -15 * FP, fogDensity |-> (4 * FP) \div 1000]

\* { ...a, ...b }
Merge(a, b) ==
  [k \in DOMAIN a \cup DOMAIN b |-> IF k \in DOMAIN b THEN b[k] ELSE a[k]]

\* 10000 * Math.pow(k / 40, 0.7), k = 0 .. 40
Pow07Table ==
  <<0, 756, 1228, 1631, 1995, 2333, 2650, 2952, 3241, 3520, 3789, 4051, 4305,
    4553, 4796, 5033, 5266, 5494, 5718, 5939, 6156, 6370, 6580, 6788, 6994,
    7196, 7397, 7595, 7791, 7984, 8176, 8366, 8554, 8740, 8925, 9108, 9289,
    9469, 9647, 9824, 10000>>

Pow07Between(t, n, k, lo, hi) == lo + ((hi - lo) * (t * n - k * Q)) \div Q

Pow07At(t, n, k) ==
  Pow07Between(t, n, k, (Pow07Table[k + 1] * Q) \div 10000, (Pow07Table[k + 2] * Q) \div 10000)

\* Math.pow(t, 0.7) for t in [0, 1], interpolated between the table entries
Pow07(t) ==
  Pow07At(t, Len(Pow07Table) - 1,
          Min((t * (Len(Pow07Table) - 1)) \div Q, Len(Pow07Table) - 2))

\* Math.pow(t, 0.5) for t in [0, 1]
Pow05(t) == ISqrt(t * Q)

\* the elevation factor of the three bands (generator.ts 85-100)
ElevationFactor(normalizedDist) ==
  IF normalizedDist < (4 * Q) \div 10 THEN Q
  ELSE IF normalizedDist < (7 * Q) \div 10 THEN
    Q - (Pow07(((normalizedDist - (4 * Q) \div 10) * 10) \div 3) * 85) \div 100
  ELSE
    (15 * (Q - Pow05(((normalizedDist - (7 * Q) \div 10) * 10) \div 3))) \div 100

\* nx = (x + island.noiseOffsetX) / island.radius * noiseFrequency
NoiseCoord(config, island, v) ==
  ((((v * Q) \div island.radius) * config.noiseFrequency) \div FP)

\* detail: detailNoise * 0.8 in the band 0.25 < normalizedDist < 0.7, else 0
Detail(perm, normalizedDist, nx, nz) ==
  IF normalizedDist > (25 * Q) \div 100 /\ normalizedDist < (7 * Q) \div 10
  THEN (noise2D(perm, nx * 3, nz * 3) * 8 * FP) \div (10 * Q)
  ELSE 0

\* islandHeight = (raw * maxTerrainHeight * heightMultiplier + detail) * elevationFactor,
\* raw = (fbm(nx, nz, ...) + 1) / 2
IslandHeight(config, perm, island, normalizedDist, elevationFactor, nx, nz) ==
  ((((((((fbm(perm, nx, nz, config.noiseOctaves, config.noiseLacunarity,
              config.noisePersistence) + Q) \div 2)
        * config.maxTerrainHeight) \div Q) * island.heightMultiplier) \div FP)
    + Detail(perm, normalizedDist, nx, nz)) * elevationFactor) \div Q

\* smoothBlend = blendFactor * blendFactor * (3 - 2 * blendFactor)
SmoothBlend(blendFactor) ==
  (((blendFactor * blendFactor) \div Q) * (3 * Q - 2 * blendFactor)) \div Q

\* blendedHeight = oceanDepth + (islandHeight - oceanDepth) * smoothBlend
Blended(oceanDepth, islandHeight, blendFactor) ==
  oceanDepth + ((islandHeight - oceanDepth) * SmoothBlend(blendFactor)) \div Q

\* a faulty blend that lets every considered island overwrite the height
HeightBlendLast(config, perm, island, px, pz, acc1, normalizedDist, elevationFactor, blendFactor) ==
  IF elevationFactor < Q \div 100 THEN acc1
  ELSE [acc1 EXCEPT
          !.highestBlend = Max(blendFactor, acc1.highestBlend),
          !.blendedHeight =
             Blended(config.oceanDepth,
                     IslandHeight(config, perm, island, normalizedDist, elevationFactor,
                                  NoiseCoord(config, island, px + island.noiseOffsetX),
                                  NoiseCoord(config, island, pz + island.noiseOffsetZ)),
                     blendFactor)]

\* the end of the loop body: the elevation cut-off and the blend;
\* acc = [highestBlend, blendedHeight, closestDist, closestIsland]
HeightBlend(config, perm, island, px, pz, acc1, normalizedDist, elevationFactor, blendFactor) ==
  IF elevationFactor < Q \div 100 THEN acc1
  ELSE IF blendFactor > acc1.highestBlend
    THEN [acc1 EXCEPT
            !.highestBlend = blendFactor,
            !.blendedHeight =
               Blended(config.oceanDepth,
                       IslandHeight(config, perm, island, normalizedDist, elevationFactor,
                                    NoiseCoord(config, island, px + island.noiseOffsetX),
                                    NoiseCoord(config, island, pz + island.noiseOffsetZ)),
                       blendFactor)]
  ELSE acc1

HeightBand(config, perm, island, px, pz, acc1, normalizedDist) ==
  HeightBlend(config, perm, island, px, pz, acc1, normalizedDist,
              ElevationFactor(normalizedDist), Max(0, Q - normalizedDist))

\* if (dist > slopeRadius) continue; normalizedDist = dist / slopeRadius
HeightOn(config, perm, island, px, pz, acc1, dist, slopeRadius) ==
  IF dist > slopeRadius THEN acc1
  ELSE HeightBand(config, perm, island, px, pz, acc1, (dist * Q) \div slopeRadius)

\* if (dist < closestDist) { closestDist = dist; closestIsland = island }
Closest(acc, idx, dist) ==
  IF acc.closestIsland = 0 \/ dist < acc.closestDist
  THEN [acc EXCEPT !.closestDist = dist, !.closestIsland = idx]
  ELSE acc

HeightNear(config, perm, island, px, pz, acc, idx, dist) ==
  HeightOn(config, perm, island, px, pz, Closest(acc, idx, dist), dist,
           (island.radius * 18) \div 10)

\* the body of the for loop of getHeightAt for the island islands[idx]
HeightStep(gen, px, pz, acc, idx) ==
  HeightNear(gen.config, gen.noise.perm, gen.islands[idx], px, pz, acc, idx,
             Hypot(px - gen.islands[idx].x, pz - gen.islands[idx].z))

\* the for loop of getHeightAt over this.islands from index idx on
RECURSIVE HeightFrom(_, _, _, _, _)
\* the islands from idx on, once the island before them is blended in
HeightThen(gen, px, pz, first, idx) ==
  IF first.highestBlend >= 0 THEN HeightFrom(gen, px, pz, first, idx) ELSE first

HeightFrom(gen, px, pz, acc, idx) ==
  IF idx > Len(gen.islands) THEN acc
  ELSE HeightThen(gen, px, pz, HeightStep(gen, px, pz, acc, idx), idx + 1)

\* seabedVariation = fbm(x * 0.01, z * 0.01, 3, 2, 0.5) * 3
SeabedVariation(perm, px, pz) ==
  (fbm(perm, MulDiv(px, Q, 100 * FP), MulDiv(pz, Q, 100 * FP), 3, 2 * FP, (5 * FP) \div 10)
   * 3 * FP) \div Q

\* a faulty seabed step that adds the variation whatever the blend is
SeabedAlways(perm, px, pz, acc) ==
  acc.blendedHeight + (SeabedVariation(perm, px, pz) * (Q - acc.highestBlend)) \div Q

\* if (highestBlend < 0.5) blendedHeight += seabedVariation * (1 - highestBlend)
Seabed(perm, px, pz, acc) ==
  IF acc.highestBlend < Q \div 2
  THEN acc.blendedHeight + (SeabedVariation(perm, px, pz) * (Q - acc.highestBlend)) \div Q
  ELSE acc.blendedHeight

\* a faulty getHeightAt() that draws from the engine while sampling
getHeightAtDrawing(gen, px, pz) ==
  [ret  |-> Seabed(gen.noise.perm, px, pz,
                   HeightFrom(gen, px, pz,
                              [highestBlend |-> 0, blendedHeight |-> gen.config.oceanDepth,
                               closestDist |-> 0, closestIsland |-> 0], 1)),
   self |-> [gen EXCEPT !.noise = NoiseRandom(gen.noise).noise]]

\* getHeightAt(x, z): [ret, self], the value returned and the generator after
\* the call
getHeightAt(gen, px, pz) ==
  [ret  |-> Seabed(gen.noise.perm, px, pz,
                   HeightFrom(gen, px, pz,
                              [highestBlend |-> 0, blendedHeight |-> gen.config.oceanDepth,
                               closestDist |-> 0, closestIsland |-> 0], 1)),
   self |-> gen]

Constructed(config) ==
  [config |-> config, noise |-> NewSeededNoise(config.seed), islands |-> <<>>]

\* new WorldGenerator(config)
NewWorldGenerator(partial) == Constructed(Merge(DEFAULT_CONFIG, partial))

\* a faulty setConfig() that also drops the islands
setConfigClearing(gen, newConfig) ==
  [gen EXCEPT !.config = Merge(gen.config, newConfig), !.islands = <<>>]

\* setConfig(newConfig)
setConfig(gen, newConfig) == [gen EXCEPT !.config = Merge(gen.config, newConfig)]

\* a faulty reseed() that also drops the islands
reseedClearing(gen, seed) ==
  [gen EXCEPT !.config = [gen.config EXCEPT !.seed = seed],
              !.noise = NoiseReseed(gen.noise, seed),
              !.islands = <<>>]

\* a faulty reseed() that reseeds the engine and leaves config.seed as it was
reseedNoiseOnly(gen, seed) == [gen EXCEPT !.noise = NoiseReseed(gen.noise, seed)]

\* reseed(seed)
reseed(gen, seed) ==
  [gen EXCEPT !.config = [gen.config EXCEPT !.seed = seed],
              !.noise = NoiseReseed(gen.noise, seed)]

\* the configurations of the model: a small world with large islands, so
\* that the numbers stay within 32 bits and few Poisson points fit
BaseConfig ==
  [worldSize |-> 80 * FP, minIslandSize |-> 12 * FP, maxIslandSize |-> 20 * FP,
   noiseOctaves |-> 3, noiseLacunarity |-> 2 * FP, noisePersistence |-> (5 * FP) \div 10]

Seeds == {NumSeed(12345), NaNSeed, StrSeed(<<97, 98>>)}
IslandCounts == {0, 1, 4}
OceanDepths == {-15 * FP, -30 * FP}

\* the arguments of new WorldGenerator(...), of setConfig(...) and of reseed(...)
ConstructArgs ==
  {Merge(BaseConfig, [seed |-> sd, islandCount |-> n]) :
     sd \in {NumSeed(12345), NaNSeed}, n \in IslandCounts}

SetConfigArgs == {[seed |-> NaNSeed], [islandCount |-> 4], [oceanDepth |-> -30 * FP]}

ReseedArgs == {NumSeed(12345), StrSeed(<<97, 98>>)}

\* the configurations a generator of the model can hold
TableConfigs ==
  {Merge(Merge(DEFAULT_CONFIG, BaseConfig),
         [seed |-> sd, islandCount |-> n, oceanDepth |-> d]) :
     sd \in Seeds, n \in IslandCounts, d \in OceanDepths}

\* the noise engine right after this.noise.reseed(config.seed)
StartOf(config) == NoiseReseed(SeededAt(NumSeed(12345)), config.seed)

PlaceEntry(config, start) == [start |-> start, placed |-> placeIslands(config, start)]

\* placeIslands() right after this.noise.reseed(config.seed), tabulated
PlaceTable == [config \in TableConfigs |-> PlaceEntry(config, StartOf(config))]

placeIslandsAt(config, noise) ==
  IF config \in TableConfigs /\ PlaceTable[config].start = noise
  THEN PlaceTable[config].placed
  ELSE placeIslands(config, noise)

Generated(gen, placed) == [gen EXCEPT !.noise = placed.noise, !.islands = placed.islands]

\* a faulty generate() that places the islands without reseeding the engine
generateKeepStream(gen) == Generated(gen, placeIslandsAt(gen.config, gen.noise))

\* generate()
generate(gen) ==
  Generated(gen, placeIslandsAt(gen.config, NoiseReseed(gen.noise, gen.config.seed)))

\* sampleHeight(x, z)
sampleHeight(gen, px, pz) == getHeightAt(gen, px, pz)

\* a faulty spawn height: the terrain height itself, without the margin
SpawnOnTerrain(mainIsland, h) ==
  [ret  |-> [x |-> mainIsland.x, y |-> h.ret, z |-> mainIsland.z],
   self |-> h.self]

SpawnOn(mainIsland, h) ==
  [ret  |-> [x |-> mainIsland.x, y |-> Max(h.ret + 5 * FP, 10 * FP), z |-> mainIsland.z],
   self |-> h.self]

\* getSpawnPosition()
getSpawnPosition(gen) ==
  IF Len(gen.islands) = 0 THEN [ret |-> [x |-> 0, y |-> 50 * FP, z |-> 0], self |-> gen]
  ELSE SpawnOn(gen.islands[1], getHeightAt(gen, gen.islands[1].x, gen.islands[1].z))

\* getConfig()
getConfig(gen) == [ret |-> gen.config, self |-> gen]

\* getIslands()
getIslands(gen) == [ret |-> gen.islands, self |-> gen]

\* ------------------------------------------------------------------------
\* The state machine: the callers' generators and the calls made on them
\* ------------------------------------------------------------------------
\* the generator instances
Gens == {1, 2}

\* the number of calls in a behaviour
MaxOps == 3

\* the points (x, z) the callers sample: two points 0.01 apart on the circle
\* around (0, 0) where highestBlend passes 0.5, and a point of the open ocean
SamplePoints == {<<1409, -800>>, <<1410, -800>>, <<234200, 236350>>}

\* the ids the server hands out, and the messages a socket holds undelivered
MaxIds == 3

MaxInbox == 2

NetIds == 1..MaxIds

\* new NetworkSync(scene, onWelcome, onNotification), before connect(), and
\* the server with no socket and no player. ws is the readyState of this.ws
\* ("null": no socket yet), sid the id the server gave to its connection,
\* inbox the messages sent to it and not yet delivered, scene[i] the number
\* of meshes remote_i in the scene; flight holds the sockets whose join
\* message is under way, others the sockets of other clients. History:
\* destroyed (destroy() has returned), reopened and pinged (connect() ran,
\* a ping was sent, after destroy()), mine (the ids welcome has given)
NewNetworkSync ==
  [ws |-> "null", sid |-> 0, inbox |-> <<>>,
   myId |-> 0, connected |-> FALSE, pinging |-> FALSE, timer |-> FALSE,
   remote |-> {}, scene |-> [i \in NetIds |-> 0],
   sockets |-> {}, players |-> {}, flight |-> {}, others |-> {}, nextId |-> 1,
   destroyed |-> FALSE, reopened |-> FALSE, pinged |-> FALSE, mine |-> {}]

VARIABLES
  gens,   \* gens[g]: the WorldGenerator object g
  hist,   \* hist[g]: what has been called on g since its construction
  out,    \* the last call: [g, op, arg, ret]
  ops,    \* the number of calls so far
  net     \* the NetworkSync object, its socket, its timers and the server

vars == <<gens, hist, out, ops, net>>

NoArg == <<>>

Init ==
  /\ gens \in [Gens -> {NewWorldGenerator(c) : c \in ConstructArgs}]
  /\ hist = [g \in Gens |-> [stage |-> "new", trip |-> "none", seed |-> NoArg]]
  /\ out = [g |-> 0, op |-> "new", arg |-> NoArg, ret |-> NoArg]
  /\ ops = 0
  /\ net = NewNetworkSync

\* the call op(arg) on generator g, which returns ret
Called(g, op, arg, ret) ==
  /\ ops < MaxOps
  /\ ops' = ops + 1
  /\ out' = [g |-> g, op |-> op, arg |-> arg, ret |-> ret]
  /\ UNCHANGED net

\* a call of a sampling method, res = [ret, self]
Sampled(g, op, arg, res) ==
  /\ Called(g, op, arg, res.ret)
  /\ gens' = [gens EXCEPT ![g] = res.self]
  /\ UNCHANGED hist

SetConfig(g, newConfig) ==
  /\ Called(g, "setConfig", newConfig, NoArg)
  /\ gens' = [gens EXCEPT ![g] = setConfig(gens[g], newConfig)]
  /\ hist' = [hist EXCEPT ![g] = [stage |-> "stale", trip |-> "none", seed |-> NoArg]]

\* hist[g].trip follows generate(); reseed(s) with another seed; generate()
Reseed(g, seed) ==
  /\ Called(g, "reseed", seed, NoArg)
  /\ gens' = [gens EXCEPT ![g] = reseed(gens[g], seed)]
  /\ hist' = [hist EXCEPT ![g] =
                IF hist[g].stage = "generated" /\ gens[g].config.seed # seed
                THEN [stage |-> "stale", trip |-> "armed", seed |-> seed]
                ELSE [stage |-> "stale", trip |-> "none", seed |-> NoArg]]

Generate(g) ==
  /\ Called(g, "generate", NoArg, NoArg)
  /\ gens' = [gens EXCEPT ![g] = generate(gens[g])]
  /\ hist' = [hist EXCEPT ![g] =
                [stage |-> "generated",
                 trip  |-> IF hist[g].trip = "none" THEN "none" ELSE "done",
                 seed  |-> hist[g].seed]]

Drawn(g, d) ==
  /\ Called(g, "random", NoArg, d.u)
  /\ gens' = [gens EXCEPT ![g].noise = d.noise]
  /\ UNCHANGED hist

\* a caller draws from the generator's public engine: generator.noise.random()
Random(g) == Drawn(g, NoiseRandom(gens[g].noise))

GetHeightAt(g, p) == Sampled(g, "getHeightAt", p, getHeightAt(gens[g], p[1], p[2]))

SampleHeight(g, p) == Sampled(g, "sampleHeight", p, sampleHeight(gens[g], p[1], p[2]))

GetSpawnPosition(g) == Sampled(g, "getSpawnPosition", NoArg, getSpawnPosition(gens[g]))

GetConfig(g) == Sampled(g, "getConfig", NoArg, getConfig(gens[g]))

GetIslands(g) == Sampled(g, "getIslands", NoArg, getIslands(gens[g]))

Next ==
  \E g \in Gens :
    \/ \E newConfig \in SetConfigArgs : SetConfig(g, newConfig)
    \/ \E seed \in ReseedArgs : Reseed(g, seed)
    \/ Generate(g)
    \/ Random(g)
    \/ \E p \in SamplePoints : GetHeightAt(g, p)
    \/ \E p \in SamplePoints : SampleHeight(g, p)
    \/ GetSpawnPosition(g)
    \/ GetConfig(g)
    \/ GetIslands(g)

Spec == Init /\ [][Next]_vars

\* ------------------------------------------------------------------------
\* Properties
\* ------------------------------------------------------------------------
ReadOps == {"getHeightAt", "sampleHeight", "getIslands", "getSpawnPosition", "getConfig"}

IsGenerated(g) == hist[g].stage = "generated"

\* getHeightAt at every sampled point
Heights(gen) == [p \in SamplePoints |-> getHeightAt(gen, p[1], p[2]).ret]

\* what the three queries return
Reads(gen) ==
  [heights |-> Heights(gen), islands |-> getIslands(gen).ret,
   spawn |-> getSpawnPosition(gen).ret]

\* the same island array, the same permutation table, the same heights
SameWorld(a, b) ==
  a.islands = b.islands /\ a.noise.perm = b.noise.perm /\ Heights(a) = Heights(b)

\* a generator freshly constructed with this config and seed, after generate()
Fresh(config, seed) == generate(NewWorldGenerator([config EXCEPT !.seed = seed]))

\* a non-stuttering step is the call out' on generator g
IsCall(g) == ops' = ops + 1 /\ out'.g = g

TwoInstances ==
  \A g1, g2 \in Gens :
    (g1 < g2 /\ IsGenerated(g1) /\ IsGenerated(g2) /\ gens[g1].config = gens[g2].config)
      => SameWorld(gens[g1], gens[g2])

Reproduced ==
  \A g \in Gens :
    IsGenerated(g) => SameWorld(gens[g], Fresh(gens[g].config, gens[g].config.seed))

\* C1: for a fixed (seed, config), two instances that have each called
\* generate() hold identical island arrays and return identical heights at
\* every sampled point; and whatever calls came before its last generate(),
\* draws and earlier generate() calls included, an instance holds the island
\* array and heights that a fresh instance of its config generates.
C1_Determinism == TwoInstances /\ Reproduced

\* two generated instances of one config with islands, one of which has
\* drawn from its engine since
C1_Witness ==
  /\ IsGenerated(1) /\ IsGenerated(2)
  /\ gens[1].config = gens[2].config
  /\ Len(gens[1].islands) >= 1
  /\ gens[1].noise.a # gens[2].noise.a

Dist2(a, b) == (a.x - b.x) * (a.x - b.x) + (a.z - b.z) * (a.z - b.z)

\* C2: after generate() with islandCount >= 2, the centres of any two
\* distinct islands are at least spacing = (min + max) / 2 * 2.5 apart.
C2_MinSpacing ==
  \A g \in Gens :
    (IsGenerated(g) /\ gens[g].config.islandCount >= 2)
      => \A i, j \in 1..Len(gens[g].islands) :
           i # j => Dist2(gens[g].islands[i], gens[g].islands[j])
                      >= Spacing(gens[g].config) * Spacing(gens[g].config)

C2_Witness ==
  /\ IsGenerated(1)
  /\ gens[1].config.islandCount >= 2
  /\ Len(gens[1].islands) >= 3

\* the bound on the height difference of two points 0.01 apart: half a world
\* unit, a slope of 50
Eps == FP \div 2

\* two points 0.01 world units apart
Adjacent(p, q) == Abs(p[1] - q[1]) + Abs(p[2] - q[2]) = FP \div 100

\* C3: the heights getHeightAt returns at two points 0.01 world units apart
\* differ by at most a small epsilon.
C3_Continuity ==
  \A g \in Gens :
    \A p, q \in SamplePoints :
      Adjacent(p, q) => Abs(Heights(gens[g])[p] - Heights(gens[g])[q]) <= Eps

\* C4: on a generator that generated a world with another seed, reseed(s)
\* then generate() yields the island array, the permutation table and the
\* heights of a generator freshly constructed with seed s and the same
\* config, after its generate().
C4_ReseedRoundTrip ==
  \A g \in Gens :
    hist[g].trip = "done"
      => SameWorld(gens[g], Fresh(gens[g].config, hist[g].seed))

C4_Witness == hist[1].trip = "done" /\ Len(gens[1].islands) >= 1

\* C5: the world generate() produces with the seed NaN is the world it
\* produces with the seed 12345.
C5_NaNFallback ==
  \A g \in Gens :
    (IsGenerated(g) /\ gens[g].config.seed = NaNSeed)
      => SameWorld(gens[g], Fresh(gens[g].config, NumSeed(12345)))

\* C6: with islandCount = 1, generate() yields exactly one island, at (0, 0),
\* rocky, heightMultiplier 1.5, edgeFalloff 1.0, radius within
\* [minIslandSize, maxIslandSize]; Poisson-disk sampling is not run: the
\* engine is three draws past its reseeding when generate() returns.
C6_SingleIsland ==
  \A g \in Gens :
    (IsGenerated(g) /\ gens[g].config.islandCount = 1)
      => /\ Len(gens[g].islands) = 1
         /\ gens[g].islands[1].x = 0 /\ gens[g].islands[1].z = 0
         /\ gens[g].islands[1].type = "rocky"
         /\ gens[g].islands[1].heightMultiplier = (15 * FP) \div 10
         /\ gens[g].islands[1].edgeFalloff = Q
         /\ gens[g].islands[1].radius >= gens[g].config.minIslandSize
         /\ gens[g].islands[1].radius <= gens[g].config.maxIslandSize
         /\ (out.g = g /\ out.op = "generate")
              => gens[g].noise.a
                   = MulberryStep(MulberryStep(MulberryStep(StartOf(gens[g].config).a)))

C6_Witness ==
  /\ IsGenerated(1) /\ gens[1].config.islandCount = 1
  /\ out.g = 1 /\ out.op = "generate"

\* C7: with islandCount <= 0, generate() yields no island, getSpawnPosition()
\* returns (0, 50, 0), and getHeightAt is at most oceanDepth + 3 everywhere.
C7_EmptyOcean ==
  \A g \in Gens :
    (IsGenerated(g) /\ gens[g].config.islandCount <= 0)
      => /\ gens[g].islands = <<>>
         /\ getSpawnPosition(gens[g]).ret = [x |-> 0, y |-> 50 * FP, z |-> 0]
         /\ \A p \in SamplePoints :
              Heights(gens[g])[p] <= gens[g].config.oceanDepth + 3 * FP

\* the points poissonDisk(spacing) returns right after the reseeding of
\* generate(), tabulated
PoissonTable ==
  [config \in TableConfigs |->
     poissonDisk(config, StartOf(config), Spacing(config)).points]

SamplingStep ==
  \A g \in Gens :
    (IsCall(g) /\ out'.op \in ReadOps)
      => /\ gens' = gens
         /\ (out.g = g /\ out.op = out'.op /\ out.arg = out'.arg) => out'.ret = out.ret

\* C9: getHeightAt, sampleHeight, getIslands, getSpawnPosition and getConfig
\* leave every generator as it was (config, islands, seed, stream position,
\* permutation table), and a sampling call repeated returns the same value.
C9_ReadOnly == [][SamplingStep]_vars

\* a sampling call on a generated world with islands
C9_Witness ==
  /\ out.op = "getHeightAt" /\ out.g = 1
  /\ IsGenerated(1) /\ Len(gens[1].islands) >= 1

\* the calls after which a query on g returns another value are among callers
ChangedOnlyBy(callers) ==
  \A g \in Gens :
    (gens'[g] # gens[g] /\ Reads(gens'[g]) # Reads(gens[g]))
      => (IsCall(g) /\ out'.op \in callers)

SetConfigKeeps ==
  \A g \in Gens :
    (IsCall(g) /\ out'.op = "setConfig")
      => gens'[g].islands = gens[g].islands /\ gens'[g].noise = gens[g].noise

IslandWrites == {<<"radius", FP>>, <<"x", 10 * FP>>}

\* the caller holds the array the last call, getIslands() on g, returned
HoldsReturned(g) == out.g = g /\ out.op = "getIslands"

\* returned.pop(): the caller's array loses its last element; the
\* generator's array is another array
PopReturned(g) ==
  /\ HoldsReturned(g) /\ Len(out.ret) >= 1
  /\ ops < MaxOps
  /\ ops' = ops + 1
  /\ out' = [out EXCEPT !.ret = SubSeq(out.ret, 1, Len(out.ret) - 1)]
  /\ UNCHANGED <<gens, hist, net>>

\* returned[i].field = value: the element i of the returned array is the
\* object this.islands[i], so the write lands in the generator's island
WriteReturned(g, i, w) ==
  /\ HoldsReturned(g) /\ i \in 1..Len(out.ret) /\ Len(out.ret) = Len(gens[g].islands)
  /\ ops < MaxOps
  /\ ops' = ops + 1
  /\ out' = [g |-> g, op |-> "writeIsland", arg |-> <<i, w>>, ret |-> NoArg]
  /\ gens' = [gens EXCEPT ![g].islands[i][w[1]] = w[2]]
  /\ hist' = [hist EXCEPT ![g] = [stage |-> "stale", trip |-> "none", seed |-> NoArg]]
  /\ UNCHANGED net

\* a caller that generates, takes the island array and works on it
NextCaller ==
  \E g \in Gens :
    \/ Generate(g)
    \/ GetIslands(g)
    \/ PopReturned(g)
    \/ \E w \in IslandWrites : WriteReturned(g, 1, w)
    \/ \E p \in SamplePoints : GetHeightAt(g, p)

SpecCaller == Init /\ [][NextCaller]_vars

\* C11: nothing a caller does to the value getIslands() returned (removing
\* an element of the array, writing a field of a returned island) changes
\* what later getIslands(), getHeightAt() and getSpawnPosition() calls return.
C11_DefensiveSnapshot ==
  [][\A g \in Gens :
       (HoldsReturned(g) /\ ops' = ops + 1 /\ out'.op \in {"getIslands", "writeIsland"}
          /\ gens'[g] # gens[g])
         => Reads(gens'[g]) = Reads(gens[g])]_vars

ReseedStep ==
  \A g \in Gens :
    /\ (IsCall(g) /\ out'.op = "reseed")
         => /\ gens'[g].islands = gens[g].islands
            /\ gens'[g].config = [gens[g].config EXCEPT !.seed = out'.arg]
            /\ gens'[g].noise = NewSeededNoise(out'.arg)
    /\ gens'[g].islands # gens[g].islands => (IsCall(g) /\ out'.op = "generate")

\* C12: reseed(seed) replaces the seed, the stream and the permutation table
\* (the engine is the engine of a new SeededNoise(seed)) and leaves the
\* island list as it was; the island list changes only in generate().
C12_ReseedKeepsIslands == [][ReseedStep]_vars

\* reseed() with another seed on a generated world with islands
C12_Witness ==
  /\ out.g = 1 /\ out.op = "reseed"
  /\ hist[1].trip = "armed"
  /\ Len(gens[1].islands) >= 1

SpawnMargin == 5 * FP

\* the generator on which the last call was made
Last == gens[out.g]

\* C13: getSpawnPosition() returns (0,50,0) when the island list is empty;
\* otherwise x and z are the centre of the island at index 0 and y is at
\* least getHeightAt(x, z) + 5.
C13_SpawnPosition ==
  out.op = "getSpawnPosition" =>
    IF Len(Last.islands) = 0
    THEN out.ret = [x |-> 0, y |-> 50 * FP, z |-> 0]
    ELSE /\ out.ret.x = Last.islands[1].x
         /\ out.ret.z = Last.islands[1].z
         /\ out.ret.y >= getHeightAt(Last, out.ret.x, out.ret.z).ret + SpawnMargin

\* a spawn on an island whose centre is high enough for the margin to decide
C13_Witness ==
  /\ out.op = "getSpawnPosition"
  /\ Len(Last.islands) >= 1
  /\ out.ret.y = getHeightAt(Last, out.ret.x, out.ret.z).ret + SpawnMargin
  /\ out.ret.y > 10 * FP

C13_WitnessEmpty ==
  /\ out.op = "getSpawnPosition"
  /\ Len(Last.islands) = 0

\* the sea levels a caller configures: the default is -1
WaterHeights == {5 * FP, 30 * FP}

NextWater ==
  \E g \in Gens :
    \/ \E w \in WaterHeights : SetConfig(g, [waterHeight |-> w])
    \/ Generate(g)
    \/ GetSpawnPosition(g)

SpecWater == Init /\ [][NextWater]_vars

\* C14: when at least one island exists, the y returned by
\* getSpawnPosition() is at least 10 units above sea level:
\* y >= waterHeight + 10 for every configured waterHeight.
C14_AboveSeaLevel ==
  (out.op = "getSpawnPosition" /\ Len(Last.islands) >= 1)
    => out.ret.y >= Last.config.waterHeight + 10 * FP

\* what the code guarantees: y is at least the absolute height 10
C14_AboveTen ==
  (out.op = "getSpawnPosition" /\ Len(Last.islands) >= 1) => out.ret.y >= 10 * FP

\* the quantities of the compositing rule for the island at index i and a point p
SlopeRadius(gen, i) == (gen.islands[i].radius * 18) \div 10

DistTo(gen, i, p) == Hypot(p[1] - gen.islands[i].x, p[2] - gen.islands[i].z)

NormDist(gen, i, p) == (DistTo(gen, i, p) * Q) \div SlopeRadius(gen, i)

BlendFactor(gen, i, p) == Max(0, Q - NormDist(gen, i, p))

\* the islands considered at p: within the slope radius, elevation factor >= 0.01
Considered(gen, p) ==
  {i \in 1..Len(gen.islands) :
     /\ DistTo(gen, i, p) <= SlopeRadius(gen, i)
     /\ ElevationFactor(NormDist(gen, i, p)) >= Q \div 100}

\* the considered island with the largest blendFactor, the earliest on a tie
Dominant(gen, p) ==
  CHOOSE i \in Considered(gen, p) :
    \A j \in Considered(gen, p) :
      \/ BlendFactor(gen, j, p) < BlendFactor(gen, i, p)
      \/ BlendFactor(gen, j, p) = BlendFactor(gen, i, p) /\ i <= j

\* the generator with every island but the dominant one at p taken away
DominantOnly(gen, p) ==
  IF Considered(gen, p) = {} THEN [gen EXCEPT !.islands = <<>>]
  ELSE [gen EXCEPT !.islands = <<gen.islands[Dominant(gen, p)]>>]

HeightCall == out.op \in {"getHeightAt", "sampleHeight"}

\* points on the overlapping slopes of two islands of the four-island worlds
BlendPoints == {<<-1000, -2794>>, <<-1400, -2794>>, <<900, -600>>}

DominantAlone(gen, p) ==
  getHeightAt(gen, p[1], p[2]).ret = getHeightAt(DominantOnly(gen, p), p[1], p[2]).ret

\* C15: getHeightAt never adds the contributions of several islands: the
\* height returned is the one computed from the single considered island
\* with the largest blendFactor (the earliest on a tie), and every other
\* island has no effect on it. Checked on the value every sampling call
\* returned and, on every world generate() built, at the overlap points.
C15_DominantIsland ==
  /\ HeightCall => out.ret = getHeightAt(DominantOnly(Last, out.arg), out.arg[1], out.arg[2]).ret
  /\ out.op = "generate" => \A p \in BlendPoints : DominantAlone(Last, p)

\* a generated world with a point on two slopes where the island later in
\* the array is the dominant one
C15_Witness ==
  /\ out.op = "generate"
  /\ \E p \in BlendPoints :
       /\ Cardinality(Considered(Last, p)) >= 2
       /\ \E j \in Considered(Last, p) : j < Dominant(Last, p)

\* a sampling call on two slopes where the earlier island is the dominant one
C15_WitnessEarlier ==
  /\ HeightCall
  /\ Cardinality(Considered(Last, out.arg)) >= 2
  /\ \E j \in Considered(Last, out.arg) : j > Dominant(Last, out.arg)

\* the largest blendFactor of a considered island at p, 0 when there is none
HighestBlend(gen, p) ==
  IF Considered(gen, p) = {} THEN 0 ELSE BlendFactor(gen, Dominant(gen, p), p)

\* oceanDepth + (islandHeight - oceanDepth) * b*b*(3 - 2b) for the island at index i
IslandTermOf(gen, i, p) ==
  Blended(gen.config.oceanDepth,
          IslandHeight(gen.config, gen.noise.perm, gen.islands[i], NormDist(gen, i, p),
                       ElevationFactor(NormDist(gen, i, p)),
                       NoiseCoord(gen.config, gen.islands[i], p[1] + gen.islands[i].noiseOffsetX),
                       NoiseCoord(gen.config, gen.islands[i], p[2] + gen.islands[i].noiseOffsetZ)),
          BlendFactor(gen, i, p))

IslandTerm(gen, p) ==
  IF Considered(gen, p) = {} THEN gen.config.oceanDepth
  ELSE IslandTermOf(gen, Dominant(gen, p), p)

\* the height with the seabed term added exactly when b < 0.5
WithSeabed(gen, p, b, term) ==
  IF b < Q \div 2
  THEN term + (SeabedVariation(gen.noise.perm, p[1], p[2]) * (Q - b)) \div Q
  ELSE term

SeabedRule(gen, p, h) == h = WithSeabed(gen, p, HighestBlend(gen, p), IslandTerm(gen, p))

\* points near an island centre, where the blend factor is above 0.5
ShorePoints == {<<2114, -2794>>, <<500, 0>>}

\* C16: getHeightAt adds the seabed term 3 * fbm(0.01x, 0.01z, 3, 2, 0.5),
\* weighted by 1 - highestBlend, if and only if the largest blendFactor of a
\* considered island is below 0.5; otherwise the result is exactly
\* oceanDepth + (islandHeight - oceanDepth) * b*b*(3 - 2b) for the dominant
\* island's blendFactor b.
C16_SeabedTerm ==
  /\ HeightCall => SeabedRule(Last, out.arg, out.ret)
  /\ out.op = "generate" =>
       \A p \in BlendPoints \cup ShorePoints :
         SeabedRule(Last, p, getHeightAt(Last, p[1], p[2]).ret)

\* a generated world with a point where b >= 0.5 and the seabed variation,
\* had it been added, would have changed the height
C16_Witness ==
  /\ out.op = "generate"
  /\ \E p \in ShorePoints :
       /\ HighestBlend(Last, p) >= Q \div 2
       /\ (SeabedVariation(Last.noise.perm, p[1], p[2]) * (Q - HighestBlend(Last, p))) \div Q # 0

\* a sampling call with a considered island of b < 0.5 and a seabed term
C16_WitnessBelow ==
  /\ HeightCall
  /\ Considered(Last, out.arg) # {}
  /\ HighestBlend(Last, out.arg) < Q \div 2
  /\ out.ret # IslandTerm(Last, out.arg)

\* the same generator with the island at index i given the edgeFalloff e
WithEdgeFalloff(gen, i, e) == [gen EXCEPT !.islands[i].edgeFalloff = e]

\* the points at which the island at index i is the one that sets the height
RuledBy(gen, i) ==
  {p \in BlendPoints \cup ShorePoints : Considered(gen, p) # {} /\ Dominant(gen, p) = i}

\* C17: of two islands identical except for edgeFalloff, the one with the
\* smaller edgeFalloff contributes less height: where an island with
\* edgeFalloff < 1 sets the height, the height is below the one the same
\* island would give with edgeFalloff = 1.
C17_EdgeFalloff ==
  out.op = "generate" =>
    \A i \in 1..Len(Last.islands) :
      Last.islands[i].edgeFalloff < Q =>
        \A p \in RuledBy(Last, i) :
          getHeightAt(Last, p[1], p[2]).ret
            < getHeightAt(WithEdgeFalloff(Last, i, Q), p[1], p[2]).ret

\* what the code does: the height does not depend on edgeFalloff at all
C17_EdgeFalloffIgnored ==
  out.op = "generate" =>
    \A i \in 1..Len(Last.islands) :
      \A p \in RuledBy(Last, i) :
        \A e \in {0, Q \div 2, Q} :
          getHeightAt(Last, p[1], p[2]).ret
            = getHeightAt(WithEdgeFalloff(Last, i, e), p[1], p[2]).ret

C17_IgnoredWitness ==
  /\ out.op = "generate"
  /\ \E i \in 1..Len(Last.islands) :
       Last.islands[i].edgeFalloff < Q /\ RuledBy(Last, i) # {}

\* max(0, 1 - distanceFromCentre / (0.85 * worldSize / 2))
EdgeRule(config, island) ==
  Max(0, Q - (Hypot(island.x, island.z) * Q) \div (((config.worldSize \div 2) * 85) \div 100))

InRanges(config, island) ==
  /\ island.radius >= config.minIslandSize /\ island.radius <= config.maxIslandSize
  /\ island.heightMultiplier >= (7 * FP) \div 10
  /\ island.heightMultiplier <= (14 * FP) \div 10
  /\ island.noiseOffsetX >= -100 * FP /\ island.noiseOffsetX <= 100 * FP
  /\ island.noiseOffsetZ >= -100 * FP /\ island.noiseOffsetZ <= 100 * FP
  /\ island.edgeFalloff = EdgeRule(config, island)
  /\ island.edgeFalloff >= 0 /\ island.edgeFalloff <= Q
  /\ island.type \in {"tropical", "rocky", "sandy"}

\* C18: for a config with 0 < minIslandSize <= maxIslandSize and
\* islandCount >= 2, every island generate() produces has its radius in
\* [minIslandSize, maxIslandSize], heightMultiplier in [0.7, 1.4], both noise
\* offsets in [-100, 100], edgeFalloff = max(0, 1 - d / (0.85 * worldSize/2))
\* and so in [0, 1], and a type among tropical, rocky, sandy.
C18_ParameterRanges ==
  (/\ out.op = "generate"
   /\ Last.config.islandCount >= 2
   /\ 0 < Last.config.minIslandSize
   /\ Last.config.minIslandSize <= Last.config.maxIslandSize)
    => \A i \in 1..Len(Last.islands) : InRanges(Last.config, Last.islands[i])

\* a generated world of several islands, one at the edge (edgeFalloff 0) and
\* one inside (edgeFalloff > 0)
C18_Witness ==
  /\ out.op = "generate"
  /\ Last.config.islandCount >= 2
  /\ Len(Last.islands) >= 2
  /\ \E i, j \in 1..Len(Last.islands) :
       Last.islands[i].edgeFalloff = 0 /\ Last.islands[j].edgeFalloff > 0

\* ------------------------------------------------------------------------
\* Colour mapping (terrain.js getTerrainColorRGB, generator.ts getIslandColor)
\* ------------------------------------------------------------------------
\* clamp01(value), on ratios counted in 1/Q
clamp01(value) == Max(0, Min(Q, value))

\* lerpRGB(a, b, t): Math.round(a[i] + (b[i] - a[i]) * t) for each channel
lerpRGB(a, b, t) ==
  [i \in 1..3 |-> (2 * (a[i] * Q + (b[i] - a[i]) * t) + Q) \div (2 * Q)]

\* an input without islandType
NoType == ""

\* switch (islandType || 'tropical') on nt = normalizedHeight
TypeColor(islandType, nt) ==
  IF islandType \in {NoType, "tropical"} THEN
    IF nt < (2 * Q) \div 10 THEN <<74, 140, 63>>
    ELSE IF nt < (4 * Q) \div 10 THEN <<58, 122, 48>>
    ELSE IF nt < (6 * Q) \div 10 THEN <<90, 96, 80>>
    ELSE IF nt < (8 * Q) \div 10 THEN <<138, 136, 128>>
    ELSE <<255, 255, 255>>
  ELSE IF islandType = "rocky" THEN
    IF nt < (2 * Q) \div 10 THEN <<90, 106, 80>>
    ELSE IF nt < (5 * Q) \div 10 THEN <<106, 106, 96>>
    ELSE <<138, 136, 128>>
  ELSE IF islandType = "sandy" THEN
    IF nt < (3 * Q) \div 10 THEN <<212, 196, 154>>
    ELSE IF nt < (6 * Q) \div 10 THEN <<196, 180, 138>>
    ELSE <<160, 160, 144>>
  ELSE <<74, 140, 63>>

\* a faulty colour mapping without the beach band
getTerrainColorNoBeach(input) ==
  IF input.height < input.oceanDepth + 2 * FP THEN
    lerpRGB(<<13, 31, 46>>, <<26, 61, 92>>,
            clamp01(((input.height - input.oceanDepth) * Q) \div (2 * FP)))
  ELSE IF input.height < input.waterHeight - FP THEN
    lerpRGB(<<26, 61, 92>>, <<139, 115, 85>>,
            clamp01(((input.height - (input.waterHeight - 5 * FP)) * Q) \div (4 * FP)) \div 2)
  ELSE IF input.height < input.waterHeight + (5 * FP) \div 10 THEN
    lerpRGB(<<201, 168, 108>>, <<232, 212, 168>>,
            clamp01(((input.height - (input.waterHeight - FP)) * Q * 10) \div (15 * FP)))
  ELSE TypeColor(input.islandType, input.normalizedHeight)

\* getTerrainColorRGB(input): <<r, g, b>>
getTerrainColorRGB(input) ==
  IF input.height < input.oceanDepth + 2 * FP THEN
    lerpRGB(<<13, 31, 46>>, <<26, 61, 92>>,
            clamp01(((input.height - input.oceanDepth) * Q) \div (2 * FP)))
  ELSE IF input.height < input.waterHeight - FP THEN
    lerpRGB(<<26, 61, 92>>, <<139, 115, 85>>,
            clamp01(((input.height - (input.waterHeight - 5 * FP)) * Q) \div (4 * FP)) \div 2)
  ELSE IF input.height < input.waterHeight + (5 * FP) \div 10 THEN
    lerpRGB(<<201, 168, 108>>, <<232, 212, 168>>,
            clamp01(((input.height - (input.waterHeight - FP)) * Q * 10) \div (15 * FP)))
  ELSE IF input.height < input.waterHeight + 2 * FP THEN
    lerpRGB(<<232, 212, 168>>, <<74, 140, 63>>,
            clamp01(((input.height - (input.waterHeight + (5 * FP) \div 10)) * Q * 10)
                      \div (15 * FP)))
  ELSE TypeColor(input.islandType, input.normalizedHeight)

\* the inputs of the model: heights at, just below and between the
\* thresholds, normalized heights around the type thresholds, every island
\* type and none, a deep ocean and one shallower than the shore bands
ColorLevels(oceanDepth, waterHeight) ==
  {oceanDepth - FP, oceanDepth, oceanDepth + 2 * FP - 1, oceanDepth + 2 * FP,
   waterHeight - 3 * FP, waterHeight - FP - 1, waterHeight - FP,
   waterHeight + (5 * FP) \div 10 - 1, waterHeight + (5 * FP) \div 10,
   waterHeight + 2 * FP - 1, waterHeight + 2 * FP, waterHeight + 10 * FP}

ColorTypes == {NoType, "tropical", "rocky", "sandy"}

ColorInputs ==
  {[height |-> h, normalizedHeight |-> (n * Q) \div 20, islandType |-> ty,
    waterHeight |-> -1 * FP, oceanDepth |-> -15 * FP] :
     h \in ColorLevels(-15 * FP, -1 * FP),
     n \in {0, 4, 6, 8, 10, 12, 16, 19}, ty \in ColorTypes}
  \cup
  {[height |-> h, normalizedHeight |-> (n * Q) \div 20, islandType |-> ty,
    waterHeight |-> -1 * FP, oceanDepth |-> -2 * FP] :
     h \in ColorLevels(-2 * FP, -1 * FP), n \in {0, 10}, ty \in ColorTypes}

InitColor ==
  /\ Init
  /\ \A g \in Gens : gens[g].config = Merge(Merge(DEFAULT_CONFIG, BaseConfig),
                                            [seed |-> NumSeed(12345), islandCount |-> 1])

Colored(input) ==
  /\ out' = [g |-> 1, op |-> "getTerrainColorRGB", arg |-> input,
             ret |-> getTerrainColorRGB(input)]
  /\ UNCHANGED <<gens, hist, ops, net>>

NextColor == \E input \in ColorInputs : Colored(input)

SpecColor == InitColor /\ [][NextColor]_vars

\* the band of an input by the ordered first-match rule
Band(input) ==
  IF input.height < input.oceanDepth + 2 * FP THEN "deepOcean"
  ELSE IF input.height < input.waterHeight - FP THEN "underwaterSlope"
  ELSE IF input.height < input.waterHeight + (5 * FP) \div 10 THEN "wetSand"
  ELSE IF input.height < input.waterHeight + 2 * FP THEN "beachToGrass"
  ELSE "islandType"

\* the two colours each of the four lower bands runs between
BandEnds ==
  [deepOcean       |-> << <<13, 31, 46>>, <<26, 61, 92>> >>,
   underwaterSlope |-> << <<26, 61, 92>>, <<139, 115, 85>> >>,
   wetSand         |-> << <<201, 168, 108>>, <<232, 212, 168>> >>,
   beachToGrass    |-> << <<232, 212, 168>>, <<74, 140, 63>> >>]

Between(v, a, b) == (a <= v /\ v <= b) \/ (b <= v /\ v <= a)

OnRamp(rgb, ends) == \A i \in 1..3 : Between(rgb[i], ends[1][i], ends[2][i])

\* the index of the first threshold (in twentieths) that nt is below
StepOf(nt, thresholds) ==
  Cardinality({k \in 1..Len(thresholds) : nt >= (thresholds[k] * Q) \div 20}) + 1

\* the colours of the island-type bands, lowest first
TypeBands ==
  [tropical |-> [thresholds |-> <<4, 8, 12, 16>>,
                 colors |-> << <<74, 140, 63>>, <<58, 122, 48>>, <<90, 96, 80>>,
                               <<138, 136, 128>>, <<255, 255, 255>> >>],
   rocky    |-> [thresholds |-> <<4, 10>>,
                 colors |-> << <<90, 106, 80>>, <<106, 106, 96>>, <<138, 136, 128>> >>],
   sandy    |-> [thresholds |-> <<6, 12>>,
                 colors |-> << <<212, 196, 154>>, <<196, 180, 138>>, <<160, 160, 144>> >>]]

TypeBandColor(ty, nt) == TypeBands[ty].colors[StepOf(nt, TypeBands[ty].thresholds)]

InBand(input, rgb) ==
  IF Band(input) = "islandType"
  THEN rgb = TypeBandColor(IF input.islandType = NoType THEN "tropical" ELSE input.islandType,
                           input.normalizedHeight)
  ELSE /\ OnRamp(rgb, BandEnds[Band(input)])
       /\ \A ty \in ColorTypes : getTerrainColorRGB([input EXCEPT !.islandType = ty]) = rgb

\* C19: the colour mapping is a total function with ordered first-match
\* bands: deep ocean below oceanDepth + 2, else underwater slope below
\* waterHeight - 1, else wet sand below waterHeight + 0.5, else beach to grass
\* below waterHeight + 2, else the island-type band chosen by normalizedHeight
\* (tropical 0.2/0.4/0.6/0.8, rocky 0.2/0.5, sandy 0.3/0.6, no type meaning
\* tropical); the island type has no effect below waterHeight + 2.
C19_ColorBands ==
  out.op = "getTerrainColorRGB" =>
    /\ out.ret \in [1..3 -> 0..255]
    /\ InBand(out.arg, out.ret)

\* a colour of a rocky island right at the top of the beach band, where the
\* type starts to matter
C19_Witness ==
  /\ out.op = "getTerrainColorRGB"
  /\ out.arg.islandType = "rocky"
  /\ out.arg.height = out.arg.waterHeight + 2 * FP
  /\ out.ret # getTerrainColorRGB([out.arg EXCEPT !.islandType = NoType])

\* a height that the deep-ocean band takes before the shore bands are tried
C19_WitnessOrdered ==
  /\ out.op = "getTerrainColorRGB"
  /\ Band(out.arg) = "deepOcean"
  /\ out.arg.height >= out.arg.waterHeight - FP
  /\ out.arg.height < out.arg.waterHeight + 2 * FP

\* ------------------------------------------------------------------------
\* The while loop of poissonDisk, one iteration at a time
\* ------------------------------------------------------------------------
PoissonSeeds == {NumSeed(12345), NaNSeed, StrSeed(<<97, 98>>)}

PoissonRadii == {20 * FP, 30 * FP, 40 * FP}

PoissonConfig == Merge(DEFAULT_CONFIG, BaseConfig)

\* the state at the while: the first point drawn, in the grid and active
PoissonEntered(config, noise, radius) ==
  PoissonFirst(config, radius, GridW(config, radius),
               RandomRanges(noise,
                            << <<-((HalfSize(config) * 8) \div 10), (HalfSize(config) * 8) \div 10>>,
                               <<-((HalfSize(config) * 8) \div 10), (HalfSize(config) * 8) \div 10>> >>))

\* the loop states of the runs of the model, each with its radius: the
\* states at most n iterations after st
RECURSIVE PoissonVisited(_, _, _, _)
PoissonVisitedThen(config, radius, next, n) ==
  IF next.found \in BOOLEAN THEN PoissonVisited(config, radius, next, n) ELSE {}

PoissonVisited(config, radius, st, n) ==
  IF st.active = <<>> \/ n = 0 THEN {}
  ELSE {<<radius, st>>}
         \cup PoissonVisitedThen(config, radius, PoissonStep(config, radius, st), n - 1)

\* one iteration of the while loop from each of these states, tabulated
PoissonStepTable ==
  [k \in UNION {PoissonVisited(PoissonConfig, r,
                               PoissonEntered(PoissonConfig, StartOf([seed |-> sd]), r),
                               2 * GridW(PoissonConfig, r) * GridW(PoissonConfig, r)) :
                  sd \in PoissonSeeds, r \in PoissonRadii}
     |-> PoissonStep(PoissonConfig, k[1], k[2])]

PoissonStepAt(radius, st) ==
  IF <<radius, st>> \in DOMAIN PoissonStepTable THEN PoissonStepTable[<<radius, st>>]
  ELSE PoissonStep(PoissonConfig, radius, st)

InitPoisson ==
  /\ gens = [g \in Gens |-> NewWorldGenerator(BaseConfig)]
  /\ hist = [g \in Gens |-> [stage |-> "new", trip |-> "none", seed |-> NoArg]]
  /\ ops = 0
  /\ net = NewNetworkSync
  /\ \E sd \in PoissonSeeds, r \in PoissonRadii :
       out = [g |-> 1, op |-> "poissonDisk", arg |-> [seed |-> sd, radius |-> r],
              ret |-> PoissonEntered(PoissonConfig, StartOf([seed |-> sd]), r)]

\* one iteration of while (active.length > 0)
PoissonIterate ==
  /\ out.op = "poissonDisk"
  /\ out.ret.active # <<>>
  /\ out' = [out EXCEPT !.ret = PoissonStepAt(out.arg.radius, out.ret)]
  /\ UNCHANGED <<gens, hist, ops, net>>

\* return points: the loop state is kept, its points are the value returned
PoissonReturn ==
  /\ out.op = "poissonDisk"
  /\ out.ret.active = <<>>
  /\ out' = [out EXCEPT !.op = "poissonDisk returned"]
  /\ UNCHANGED <<gens, hist, ops, net>>

NextPoisson == PoissonIterate \/ PoissonReturn

\* the loop is sequential code: while it can take a step it takes it
SpecPoisson == InitPoisson /\ [][NextPoisson]_vars /\ WF_vars(NextPoisson)

\* an iteration accepts one point, which becomes active, or removes one
\* index from the active list
IterationStep ==
  (out.op = "poissonDisk" /\ out'.op = "poissonDisk") =>
    \/ /\ Len(out'.ret.points) = Len(out.ret.points) + 1
       /\ SubSeq(out'.ret.points, 1, Len(out.ret.points)) = out.ret.points
       /\ out'.ret.active = Append(out.ret.active, Len(out.ret.points))
    \/ /\ out'.ret.points = out.ret.points
       /\ Len(out'.ret.active) = Len(out.ret.active) - 1

\* no more points than grid cells, and every active index names a point
CellBound ==
  out.op = "poissonDisk" =>
    /\ Len(out.ret.points)
         <= GridW(PoissonConfig, out.arg.radius) * GridW(PoissonConfig, out.arg.radius)
    /\ \A k \in 1..Len(out.ret.active) : out.ret.active[k] \in 0..(Len(out.ret.points) - 1)

\* the points returned are those of poissonDisk() as generate() computes it
ReturnedAll ==
  out.op = "poissonDisk returned" =>
    out.ret.points = poissonDisk(PoissonConfig, StartOf([seed |-> out.arg.seed]), out.arg.radius).points

\* C20: poissonDisk terminates: each loop iteration either accepts one new
\* point or removes one index from the active list, the number of accepted
\* points is bounded by the number of grid cells, and the active list
\* eventually becomes empty, after which the points are returned.
C20_PoissonTerminates ==
  /\ [][IterationStep]_vars
  /\ [](CellBound /\ ReturnedAll)
  /\ <>(out.op = "poissonDisk returned")

\* a run that accepted several points and has emptied its active list
C20_Witness ==
  /\ out.op = "poissonDisk"
  /\ out.ret.active = <<>>
  /\ Len(out.ret.points) >= 3

PoissonRunning == out.op \in {"poissonDisk", "poissonDisk returned"}

\* the point is within the fraction pct/100 of the half size on both axes
WithinPct(config, point, pct) ==
  /\ Abs(point.x) <= (HalfSize(config) * pct) \div 100
  /\ Abs(point.z) <= (HalfSize(config) * pct) \div 100

\* the point of index i - 1 is in bounds and sits in the grid cell of its
\* coordinates, which is a valid index
PlacedInGrid(config, radius, st, i) ==
  /\ WithinPct(config, st.points[i], 95)
  /\ GridIndex(config, radius, st.points[i].x, st.points[i].z)
       \in 0..(GridW(config, radius) * GridW(config, radius) - 1)
  /\ st.grid[GridIndex(config, radius, st.points[i].x, st.points[i].z) + 1] = i - 1

\* C21: every point of poissonDisk satisfies |x|, |z| <= 0.95 * worldSize/2,
\* the first point |x|, |z| <= 0.8 * worldSize/2, and every point maps to a
\* valid grid cell index in [0, gridW*gridW).
C21_PlacementBounds ==
  PoissonRunning =>
    /\ WithinPct(PoissonConfig, out.ret.points[1], 80)
    /\ \A i \in 1..Len(out.ret.points) :
         PlacedInGrid(PoissonConfig, out.arg.radius, out.ret, i)

\* a run that accepted a point beyond the range of the first point
C21_Witness ==
  /\ out.op = "poissonDisk returned"
  /\ \E i \in 2..Len(out.ret.points) : ~WithinPct(PoissonConfig, out.ret.points[i], 80)

\* ------------------------------------------------------------------------
\* The random stream by position
\* ------------------------------------------------------------------------
Word(k) == <<k \div H16, k % H16>>

\* the closure variable of mulberry32 after k draws from the seed word
StreamAt(seed32, k) == Add32(seed32, Imul(Word(k), Golden))

\* the k-th value drawn since the engine was seeded
DrawAt(noise, k) == MulberryOut(StreamAt(ToUint32(noise.seed), k))

\* -x | 0, and the inverse of the stream increment modulo 2^32
Neg32(x) == Add32(Xor32(x, <<H16 - 1, H16 - 1>>), <<0, 1>>)

GoldenInv == <<56408, 43613>>

DrawsWord(noise) == Imul(Add32(noise.a, Neg32(ToUint32(noise.seed))), GoldenInv)

\* the number of values drawn since the engine was seeded (-1: over 2^16)
DrawsSince(noise) ==
  IF DrawsWord(noise)[1] = 0 THEN DrawsWord(noise)[2] ELSE -1

\* randomRange(min, max) on the k-th draw
RangeAt(noise, k, min, max) == min + ScaleFloor(DrawAt(noise, k), max - min)

\* the first two places the shuffle fixes: p[255] from draw 1, p[254] from draw 2
ShuffleFirst(noise) ==
  /\ noise.perm[256] = ScaleFloor(DrawAt(noise, 1), 256)
  /\ noise.perm[255] =
       IF ScaleFloor(DrawAt(noise, 2), 255) = ScaleFloor(DrawAt(noise, 1), 256)
       THEN 255 ELSE ScaleFloor(DrawAt(noise, 2), 255)

\* the island has its five parameters from the draws b + 1 .. b + 5, in the
\* order radius, heightMultiplier, noiseOffsetX, noiseOffsetZ, type
IslandFrom(gen, island, b) ==
  /\ island.radius
       = RangeAt(gen.noise, b + 1, gen.config.minIslandSize, gen.config.maxIslandSize)
  /\ island.heightMultiplier = RangeAt(gen.noise, b + 2, (7 * FP) \div 10, (14 * FP) \div 10)
  /\ island.noiseOffsetX = RangeAt(gen.noise, b + 3, -100 * FP, 100 * FP)
  /\ island.noiseOffsetZ = RangeAt(gen.noise, b + 4, -100 * FP, 100 * FP)
  /\ island.type = TypeOf(ScaleFloor(DrawAt(gen.noise, b + 5), 10))

\* the candidate of attempt k of the first loop iteration around the first
\* point: draw 258 picks the point, draws 257 + 2k and 258 + 2k are the
\* angle and the distance
FirstAttempt(gen, k, radius, axis) ==
  (axis[(ScaleFloor(DrawAt(gen.noise, 257 + 2 * k), NDir)) % NDir]
     * RangeAt(gen.noise, 258 + 2 * k, radius, 2 * radius)) \div 10000

CosAxis == [k \in 0..(NDir - 1) |-> CosDir(k)]
SinAxis == [k \in 0..(NDir - 1) |-> SinDir(k)]

\* islandCount >= 2 with n islands and total draws: Poisson first, islands last
ManyOrder(gen, n, total) ==
  /\ total >= 257 + 5 * n
  /\ gen.islands[1].x = RangeAt(gen.noise, 256, -((HalfSize(gen.config) * 8) \div 10),
                                (HalfSize(gen.config) * 8) \div 10)
  /\ gen.islands[1].z = RangeAt(gen.noise, 257, -((HalfSize(gen.config) * 8) \div 10),
                                (HalfSize(gen.config) * 8) \div 10)
  /\ n >= 2 =>
       \E k \in 1..Attempts :
         /\ total >= 258 + 2 * k + 5 * n
         /\ gen.islands[2].x
              = gen.islands[1].x + FirstAttempt(gen, k, Spacing(gen.config), CosAxis)
         /\ gen.islands[2].z
              = gen.islands[1].z + FirstAttempt(gen, k, Spacing(gen.config), SinAxis)
  /\ \A i \in 1..n : IslandFrom(gen, gen.islands[i], total - 5 * n + 5 * (i - 1))

\* the single island of islandCount = 1: radius, noiseOffsetX, noiseOffsetZ
SingleOrder(gen, total) ==
  /\ total = 258
  /\ gen.islands[1].radius
       = RangeAt(gen.noise, 256, gen.config.minIslandSize, gen.config.maxIslandSize)
  /\ gen.islands[1].noiseOffsetX = RangeAt(gen.noise, 257, -100 * FP, 100 * FP)
  /\ gen.islands[1].noiseOffsetZ = RangeAt(gen.noise, 258, -100 * FP, 100 * FP)

DrawOrder(gen) ==
  /\ ShuffleFirst(gen.noise)
  /\ IF gen.config.islandCount <= 0 THEN DrawsSince(gen.noise) = 255
     ELSE IF gen.config.islandCount = 1 THEN SingleOrder(gen, DrawsSince(gen.noise))
     ELSE ManyOrder(gen, Len(gen.islands), DrawsSince(gen.noise))

DrawOrderStep ==
  \A g \in Gens :
    /\ (IsCall(g) /\ out'.op = "generate") => DrawOrder(gens'[g])
    /\ (IsCall(g) /\ out'.op \in ReadOps) => gens'[g].noise = gens[g].noise

\* C22: generate() draws in a fixed order: the 255 shuffle draws first, then
\* the Poisson-disk draws (two for the first point, per iteration one pick
\* and per attempt an angle then a distance), then per island radius,
\* heightMultiplier, noiseOffsetX, noiseOffsetZ, type (for islandCount = 1
\* radius, noiseOffsetX, noiseOffsetZ only); the sampling calls draw nothing.
C22_DrawOrder == [][DrawOrderStep]_vars

\* a generated world of several islands whose engine stands after the
\* shuffle, the Poisson draws and five draws for each island
C22_Witness ==
  /\ out.op = "generate"
  /\ Len(Last.islands) >= 3
  /\ DrawsSince(Last.noise) > 257 + 5 * Len(Last.islands)

\* the elements of a sequence
Elems(s) == {s[k] : k \in 1..Len(s)}

\* the step accepted a candidate: one more point, in its grid cell and active
AcceptedStep(radius, st, st1) ==
  /\ Len(st1.points) = Len(st.points) + 1
  /\ SubSeq(st1.points, 1, Len(st.points)) = st.points
  /\ st1.grid = [st.grid EXCEPT
                   ![GridIndex(PoissonConfig, radius, st1.points[Len(st1.points)].x,
                               st1.points[Len(st1.points)].z) + 1] = Len(st.points)]
  /\ st1.active = Append(st.active, Len(st.points))

\* the step removed one index after all the attempts: 1 + 2 * attempts draws
RemovedStep(st, st1) ==
  /\ st1.points = st.points
  /\ st1.grid = st.grid
  /\ Len(st1.active) = Len(st.active) - 1
  /\ Elems(st1.active) \subseteq Elems(st.active)
  /\ DrawsSince(st1.noise) = DrawsSince(st.noise) + 1 + 2 * Attempts

ProtocolStep ==
  (out.op = "poissonDisk" /\ out'.op = "poissonDisk") =>
    /\ AcceptedStep(out.arg.radius, out.ret, out'.ret) \/ RemovedStep(out.ret, out'.ret)
    /\ Elems(out'.ret.active) \ Elems(out.ret.active) \subseteq {Len(out.ret.points)}

\* the active list holds valid, pairwise distinct point indices
ActiveValid ==
  PoissonRunning =>
    /\ Elems(out.ret.active) \subseteq 0..(Len(out.ret.points) - 1)
    /\ Cardinality(Elems(out.ret.active)) = Len(out.ret.active)

\* C23: an accepted candidate is appended to the points, written into its grid
\* cell and appended to the active list in the same step; an index leaves the
\* active list only in an iteration where all 30 candidates were rejected; the
\* only index ever added is that of the new point, so a removed index never
\* comes back; the active list holds valid, pairwise distinct indices.
C23_ActiveProtocol == [][ProtocolStep]_vars /\ []ActiveValid

\* a run in which an index was removed while later points are still active
C23_Witness ==
  /\ out.op = "poissonDisk"
  /\ Len(out.ret.active) >= 1
  /\ Len(out.ret.active) < Len(out.ret.points)
  /\ 0 \notin Elems(out.ret.active)

\* ------------------------------------------------------------------------
\* The noise engine on its own: the public field generator.noise
\* ------------------------------------------------------------------------
\* a faulty randomInt(min, max) drawing from [min, max + 2)
randomIntWide(noise, min, max) == NoiseRandomRange(noise, min, max + 2)

\* randomInt(min, max) = Math.floor(randomRange(min, max + 1)), in whole
\* numbers: min + floor(r * (max + 1 - min))
randomInt(noise, min, max) == NoiseRandomRange(noise, min, max + 1)

\* the arguments of the calls
EngineSeeds == {NumSeed(12345), NumSeed(7), NumSeed(0), StrSeed(<<97, 98>>), StrSeed(<<>>)}

RangeArgs == {<<0, FP>>, <<-100 * FP, 100 * FP>>}

IntArgs == {<<0, 1>>, <<-1, 1>>}

\* a call that draws one value: d = [noise, v]
EngineDrew(g, op, arg, d) ==
  /\ Called(g, op, arg, d.v)
  /\ gens' = [gens EXCEPT ![g].noise = d.noise]
  /\ UNCHANGED hist

EngineRandomRange(g, r) ==
  EngineDrew(g, "randomRange", r, NoiseRandomRange(gens[g].noise, r[1], r[2]))

EngineRandomInt(g, r) ==
  EngineDrew(g, "randomInt", r, randomInt(gens[g].noise, r[1], r[2]))

EngineReset(g) ==
  /\ Called(g, "reset", NoArg, NoArg)
  /\ gens' = [gens EXCEPT ![g].noise = NoiseReset(gens[g].noise)]
  /\ UNCHANGED hist

\* hist[g] keeps the seed the engine was last given
EngineReseed(g, seed) ==
  /\ Called(g, "noise.reseed", seed, NoArg)
  /\ gens' = [gens EXCEPT ![g].noise = NoiseReseed(gens[g].noise, seed)]
  /\ hist' = [hist EXCEPT ![g] = [stage |-> "stale", trip |-> "none", seed |-> seed]]

InitNoise ==
  /\ Init
  /\ gens[2] = NewWorldGenerator(Merge(BaseConfig, [seed |-> NumSeed(12345), islandCount |-> 0]))
  /\ gens[1].config.islandCount = 0

NextNoise ==
  \/ Random(1)
  \/ \E r \in RangeArgs : EngineRandomRange(1, r)
  \/ \E r \in IntArgs : EngineRandomInt(1, r)
  \/ EngineReset(1)
  \/ \E seed \in EngineSeeds : EngineReseed(1, seed)

SpecNoise == InitNoise /\ [][NextNoise]_vars

\* the table has 512 entries, the first 256 are a permutation of 0..255 and
\* the second half repeats the first
PermOK(perm) ==
  /\ Len(perm) = 512
  /\ {perm[k] : k \in 1..256} = 0..255
  /\ \A k \in 1..256 : perm[k + 256] = perm[k]

\* C24: after construct, reseed and reset, for every seed, the permutation
\* table has exactly 512 entries, entries 0..255 are a permutation of 0..255
\* and entry i + 256 equals entry i.
C24_PermutationTable == \A g \in Gens : PermOK(gens[g].noise.perm)

\* a table rebuilt by reset() after draws on an engine reseeded with 7
C24_Witness ==
  /\ out.op = "reset"
  /\ gens[1].noise.seed = NumSeed(7)
  /\ gens[1].noise.perm # Identity256 \o Identity256

\* the coordinates noise2D is asked at: the midpoints of a row of cells up to
\* x = 511.5 at y = 255.5, negative ones and large ones
NoisePoints ==
  {<<k * Q + Q \div 2, 255 * Q + Q \div 2>> : k \in 0..511}
    \cup {<<-(Q \div 2), -(Q \div 2)>>, <<-300 * Q - 1, 1000 * Q + 7>>, <<-1, 256 * Q>>}

\* the indices noise2D reads in the cell (X, Y) once X and X + 1 are in the
\* table: A, A + 1, B, B + 1 with A = perm[X] + Y and B = perm[X + 1] + Y
CornerIndices(perm, X, Y) ==
  {perm[X + 1] + Y, perm[X + 1] + Y + 1, perm[X + 2] + Y, perm[X + 2] + Y + 1}

InTable(perm, X, Y) ==
  /\ X \in 0..255 /\ Y \in 0..255
  /\ X + 1 \in 0..511
  /\ CornerIndices(perm, X, Y) \subseteq 0..511

\* C25: noise2D never reads outside the permutation table: for all x and y,
\* negative and large ones included, X and Y are in 0..255 and the indices
\* X, X + 1, A, A + 1, B, B + 1 are in 0..511.
C25_IndicesInTable ==
  \A g \in Gens : \A p \in NoisePoints :
    InTable(gens[g].noise.perm, CellOf(p[1]), CellOf(p[2]))

\* an engine for which a point of the model reads the last entry, index 511
C25_Witness ==
  /\ out.op = "noise.reseed"
  /\ \E p \in NoisePoints :
       511 \in CornerIndices(gens[1].noise.perm, CellOf(p[1]), CellOf(p[2]))

\* cell midpoints x = k + 0.5, y = l + 0.5
RangePoints == {<<k * Q + Q \div 2, l * Q + Q \div 2>> : k \in 0..7, l \in 0..7}

\* the octave counts fbm is asked with, at the default lacunarity 2.2 and
\* persistence 0.45
RangeOctaves == 1..3

\* raw = (raw + 1) / 2 of getHeightAt
RawOf(f) == (f + Q) \div 2

FbmAt(perm, p, octaves) ==
  fbm(perm, p[1], p[2], octaves, DEFAULT_CONFIG.noiseLacunarity, DEFAULT_CONFIG.noisePersistence)

\* C26: noise2D(x, y) and fbm(x, y, octaves >= 1, ...) are in [-1, 1] for all
\* inputs and all permutation tables, so raw = (fbm + 1) / 2 is in [0, 1].
C26_NoiseRange ==
  \A g \in Gens : \A p \in RangePoints :
    /\ noise2D(gens[g].noise.perm, p[1], p[2]) \in -Q..Q
    /\ \A octaves \in RangeOctaves :
         /\ FbmAt(gens[g].noise.perm, p, octaves) \in -Q..Q
         /\ RawOf(FbmAt(gens[g].noise.perm, p, octaves)) \in 0..Q

\* a string seed or a non-zero number
ValidSeed(seed) == seed.kind = "str" \/ Truthy(seed)

\* the seed engine g was given last: at construction or by reseed(s)
GivenSeed(g) == IF hist[g].stage = "new" THEN gens[g].config.seed ELSE hist[g].seed

\* the next three values random() returns from the engine state noise
NextDraws(noise) ==
  <<NoiseRandom(noise).u,
    NoiseRandom(NoiseRandom(noise).noise).u,
    NoiseRandom(NoiseRandom(NoiseRandom(noise).noise).noise).u>>

SameEngine(noise, fresh) ==
  /\ noise = fresh
  /\ noise.perm = fresh.perm
  /\ NextDraws(noise) = NextDraws(fresh)

ResetStep ==
  (out'.op = "reset" /\ ops' # ops /\ ValidSeed(GivenSeed(1)))
    => SameEngine(gens'[1].noise, NewSeededNoise(GivenSeed(1)))

ReseedRoundTrip ==
  \A seed \in EngineSeeds :
    (out'.op = "noise.reseed" /\ ops' # ops /\ out'.arg = seed /\ ValidSeed(seed))
      => SameEngine(gens'[1].noise, NewSeededNoise(seed))

\* C27: after any number of random(), randomRange() and randomInt() draws,
\* reset() puts the engine in the state it had right after construction with
\* the same seed (same table, same following random() values), and reseed(s)
\* gives the state of constructing with s, for every string seed and every
\* non-zero numeric seed s.
C27_ResetRoundTrip == [][ResetStep /\ ReseedRoundTrip]_vars

\* reset() has put an engine reseeded with 7 back to its state after seeding:
\* 255 values drawn, all by the shuffle
C27_Witness ==
  /\ out.op = "reset"
  /\ ops = MaxOps
  /\ hist[1].stage = "stale"
  /\ hist[1].seed = NumSeed(7)
  /\ gens[1].noise = NewSeededNoise(NumSeed(7))
  /\ DrawsSince(gens[1].noise) = 255

\* C28: random() is a 32-bit unsigned value divided by 2^32, so in [0, 1);
\* randomRange(min, max) with min < max is in [min, max); randomInt(min, max)
\* with integers min <= max is an integer in min..max and never max + 1.
C28_RandomPrimitives ==
  /\ out.op = "random" => (out.ret[1] \in 0..(H16 - 1) /\ out.ret[2] \in 0..(H16 - 1))
  /\ out.op = "randomRange" => (out.arg[1] <= out.ret /\ out.ret < out.arg[2])
  /\ out.op = "randomInt" => out.ret \in out.arg[1]..out.arg[2]

\* randomInt(-1, 1) has returned max
C28_Witness == out.op = "randomInt" /\ out.arg = <<-1, 1>> /\ out.ret = 1

\* randomInt(-1, 1) has returned min
C28_WitnessMin == out.op = "randomInt" /\ out.arg = <<-1, 1>> /\ out.ret = -1

\* ------------------------------------------------------------------------
\* NetworkSync, its WebSocket and the game server
\* ------------------------------------------------------------------------
\* a server message: players is used by welcome and tick, id by the others
Msg(type, id, players) == [type |-> type, id |-> id, players |-> players]

\* the socket of this.ws still takes what the server sends to it
Receives(n) == n.sid \in n.sockets /\ n.ws \in {"connecting", "open"}

\* ws.send(data) on the server for the socket of this.ws
SendTo(n, msg) == IF Receives(n) THEN [n EXCEPT !.inbox = Append(@, msg)] ELSE n

\* room for one more undelivered message
Room(n) == Receives(n) => Len(n.inbox) < MaxInbox

\* broadcast(msg, excludeId)
broadcast(n, msg, excludeId) == IF n.sid # excludeId THEN SendTo(n, msg) ELSE n

\* _spawnRemote(p) for every p of ids: no second mesh for an id in the map
SpawnEach(n, ids) ==
  [n EXCEPT !.remote = @ \cup ids,
            !.scene = [i \in NetIds |-> IF i \in ids \ n.remote THEN @[i] + 1 ELSE @[i]]]

_spawnRemote(n, id) == SpawnEach(n, {id})

\* _removeRemote(id) for every id of ids
RemoveEach(n, ids) ==
  [n EXCEPT !.remote = @ \ ids,
            !.scene = [i \in NetIds |-> IF i \in ids \cap n.remote THEN @[i] - 1 ELSE @[i]]]

_removeRemote(n, id) == RemoveEach(n, {id})

\* a faulty tick handler without the test p.id === this.myId
HandleTickAll(n, msg) == SpawnEach(n, msg.players)

\* case 'welcome'
HandleWelcome(n, msg) ==
  SpawnEach([n EXCEPT !.myId = msg.id, !.mine = @ \cup {msg.id}], msg.players \ {msg.id})

\* case 'player_joined'
HandleJoined(n, msg) == IF msg.id = n.myId THEN n ELSE _spawnRemote(n, msg.id)

\* case 'tick'
HandleTick(n, msg) == SpawnEach(n, msg.players \ {n.myId})

\* _handleMessage(msg); player_moved only sets the target of an entry
_handleMessage(n, msg) ==
  CASE msg.type = "welcome" -> HandleWelcome(n, msg)
    [] msg.type = "player_joined" -> HandleJoined(n, msg)
    [] msg.type = "player_left" -> _removeRemote(n, msg.id)
    [] msg.type = "player_moved" -> n
    [] msg.type = "tick" -> HandleTick(n, msg)

\* connect(playerName): this.ws = new WebSocket(url)
connect(n) ==
  [n EXCEPT !.ws = "connecting", !.sid = 0, !.inbox = <<>>, !.timer = FALSE,
            !.reopened = n.destroyed]

\* ws.onopen: connected = true; send join; _startPing()
onopen(n) ==
  [n EXCEPT !.ws = "open", !.connected = TRUE, !.pinging = TRUE,
            !.flight = @ \cup {n.sid}]

\* ws.onclose: connected = false; clearInterval; setTimeout(connect, 3000)
onclose(n) ==
  [n EXCEPT !.ws = "closed", !.inbox = <<>>, !.connected = FALSE,
            !.pinging = FALSE, !.timer = TRUE]

\* the callback of setInterval in _startPing
pingTick(n) == IF n.ws = "open" THEN [n EXCEPT !.pinged = n.destroyed] ELSE n

\* destroy(): clearInterval, clearTimeout, ws.close(), remove every remote
destroy(n) ==
  RemoveEach([n EXCEPT !.pinging = FALSE, !.timer = FALSE,
                       !.ws = IF @ \in {"connecting", "open"} THEN "closing" ELSE @,
                       !.destroyed = TRUE],
             n.remote)

\* the server: websocket.open with the id of generateId(), taken as unused
serverOpen(n) ==
  [n EXCEPT !.sid = n.nextId, !.sockets = @ \cup {n.nextId}, !.nextId = @ + 1]

\* the server: case "join" on the socket id
serverJoin(n, id) ==
  IF id = n.sid
  THEN SendTo([n EXCEPT !.players = @ \cup {id}, !.flight = @ \ {id}],
              Msg("welcome", id, n.players \cup {id}))
  ELSE broadcast([n EXCEPT !.players = @ \cup {id}, !.flight = @ \ {id}],
                 Msg("player_joined", id, {}), id)

\* the server: websocket.close on the socket id
serverClose(n, id) ==
  IF id \in n.players
  THEN broadcast([n EXCEPT !.sockets = @ \ {id}, !.flight = @ \ {id},
                           !.others = @ \ {id}, !.players = @ \ {id}],
                 Msg("player_left", id, {}), id)
  ELSE [n EXCEPT !.sockets = @ \ {id}, !.flight = @ \ {id}, !.others = @ \ {id}]

\* another client connects and joins: the server's websocket.open and
\* case "join" for its socket, which gets the id of generateId()
otherJoin(n) ==
  serverJoin([n EXCEPT !.sockets = @ \cup {n.nextId}, !.others = @ \cup {n.nextId},
                       !.nextId = @ + 1],
             n.nextId)

NetStep(n) == net' = n /\ UNCHANGED <<gens, hist, out, ops>>

Connect == net.ws = "null" /\ ~net.destroyed /\ NetStep(connect(net))

ServerOpen ==
  /\ net.ws = "connecting" /\ net.sid = 0 /\ net.nextId <= MaxIds
  /\ NetStep(serverOpen(net))

OnOpen == net.ws = "connecting" /\ net.sid # 0 /\ NetStep(onopen(net))

ServerJoin(id) ==
  /\ id \in net.flight \cap net.sockets /\ Room(net)
  /\ NetStep(serverJoin(net, id))

\* the server's close handler for a socket of another client, or for one of
\* this client once the client has closed it or lost it
ServerClose(id) ==
  /\ id \in net.sockets /\ Room(net)
  /\ id \in net.others \/ id # net.sid \/ net.ws \in {"closing", "closed"}
  /\ NetStep(serverClose(net, id))

ServerTick ==
  /\ net.players # {} /\ Receives(net) /\ Room(net)
  /\ NetStep(broadcast(net, Msg("tick", 0, net.players), 0))

ServerMove(id) ==
  /\ id \in net.others \cap net.players /\ Receives(net) /\ Room(net)
  /\ NetStep(broadcast(net, Msg("player_moved", id, {}), id))

OtherJoin == net.nextId <= MaxIds /\ Room(net) /\ NetStep(otherJoin(net))

\* ws.onmessage: only an open socket delivers
OnMessage ==
  /\ net.ws = "open" /\ net.inbox # <<>>
  /\ NetStep(_handleMessage([net EXCEPT !.inbox = Tail(@)], Head(net.inbox)))

\* the close event: after close(), or when the connection fails or drops
OnClose == net.ws \in {"connecting", "open", "closing"} /\ NetStep(onclose(net))

ReconnectTimer == net.timer /\ NetStep(connect(net))

PingInterval == net.pinging /\ net.ws = "open" /\ NetStep(pingTick(net))

Destroy == ~net.destroyed /\ net.ws # "null" /\ NetStep(destroy(net))

NextNet ==
  \/ Connect
  \/ ServerOpen
  \/ OnOpen
  \/ \E id \in NetIds : ServerJoin(id)
  \/ \E id \in NetIds : ServerClose(id)
  \/ ServerTick
  \/ \E id \in NetIds : ServerMove(id)
  \/ OtherJoin
  \/ OnMessage
  \/ OnClose
  \/ ReconnectTimer
  \/ PingInterval
  \/ Destroy

InitNet ==
  /\ Init
  /\ \A g \in Gens : gens[g].config.seed = NumSeed(12345) /\ gens[g].config.islandCount = 0

SpecNet == InitNet /\ [][NextNet]_vars

\* C29: destroy() is final: after it has returned, whatever the order of the
\* socket's close event and of the timers, no reconnect timer is left or
\* created and no new WebSocket is opened, no ping is sent, and the
\* remote-player map is empty.
C29_DestroyFinal ==
  net.destroyed =>
    /\ ~net.timer
    /\ ~net.reopened
    /\ ~net.pinged
    /\ net.remote = {}

\* destroy() itself leaves no timer, no interval and no remote player
C29_DestroyReturns ==
  [][(~net.destroyed /\ net'.destroyed)
       => (~net'.timer /\ ~net'.pinging /\ net'.remote = {}
           /\ net'.ws \in {"closing", "closed"})]_vars

\* C30: the remote-player map never has an entry whose key is myId, for
\* every order in which the server sends welcome, player_joined,
\* player_left, player_moved and tick, also after a reconnect that gives a
\* new id; and every id of the map has exactly one mesh in the scene, every
\* other id none.
C30_LocalNotRemote ==
  /\ net.myId \notin net.remote
  /\ \A i \in NetIds : net.scene[i] = IF i \in net.remote THEN 1 ELSE 0

\* after a reconnect welcome has given a second id, and a tick has put the
\* player of the first connection, still known to the server, into the map
C30_Witness ==
  /\ Cardinality(net.mine) = 2
  /\ net.myId \in net.mine
  /\ net.remote \cap net.mine # {}
  /\ net.remote \ net.mine # {}

====
